---- MODULE Spec2Model ----
(***************************************************************************)
(* A model of the wes assembler (src/wes): expression evaluation, the      *)
(* pattern unifier, the 6502 addressing-mode matcher, the instruction      *)
(* encoders and the two-pass compiler.                                     *)
(*                                                                         *)
(* AST nodes are tuples whose first element is the class name:             *)
(*   <<"Val", n>>  <<"Name", s>>  <<"UnExpr", op, x>>                      *)
(*   <<"BinExpr", x, op, y>>  <<"Deref", e>>                               *)
(*   <<"Label", s>>  <<"Const", s, e>>  <<"Offset", n, rel>>               *)
(*   <<"Op", mnemonic, args>>                                              *)
(* Token spans (toks) are annotations and are not part of the model.       *)
(***************************************************************************)
EXTENDS Integers, Sequences, FiniteSets, TLC

VARIABLES
    target,     \* which Compiler subclass: "sap" or "wdc"
    stmts,      \* Compiler.file.stmts
    phase,      \* "idle" | "init" | "scan" | "iter" | "done"
    idx,        \* position of the statement loop of the running pass
    loc,        \* the loc cursor of the running pass
    last_inst,  \* last_inst of the running pass
    labels,     \* Compiler.labels
    consts,     \* Compiler.consts
    scope,      \* Compiler.scope
    out,        \* the values yielded so far by Compiler.__iter__
    err,        \* the exception that ended the run, or NoErr
    call,       \* the pending call of a function under test, or NoCall
    ret         \* its result

vars == <<target, stmts, phase, idx, loc, last_inst, labels, consts, scope,
          out, err, call, ret>>

compilerVars == <<target, stmts, phase, idx, loc, last_inst, labels, consts,
                  scope, out, err>>

----------------------------------------------------------------------------
(* Bounds of the model *)

MaxStmts == 3       \* longest program
MaxLoc == 18        \* largest cursor given to resolve_offset
MaxOffset == 18     \* largest offset given to resolve_offset
MaxWrap == 3        \* deepest nesting of the arguments given to Format.match
MaxBytes == 2       \* operands given to WdcUnary reach 256 ^ MaxBytes
MaxOperand == 17     \* largest magnitude of the operands given to SapUnary
MaxText == 4        \* longest text given to the lexer
MaxTok == 4         \* longest token given to parse_atom
MaxOps == 2         \* most operators in the expressions given to parse_expr
MaxNodes == 3       \* most nodes of a term given to unify
MaxLine == 5        \* longest line given to a left-recursive parser
MaxWords == 4       \* most words of a line given to parse_file
MaxStream == 2      \* most names of the line behind a TokenStream

----------------------------------------------------------------------------
(* Results and exceptions *)

Ok(v) == <<"ok", v>>
Raise(kind, msg, detail) == <<"raise", kind, msg, detail>>
IsOk(r) == r[1] = "ok"
ErrOf(r) == <<r[2], r[3], r[4]>>

NoErr == <<"none">>
NoCall == <<"none">>
None == <<"None">>

EmptyMap == [n \in {} |-> 0]

Message(msg, detail) == Raise("Message", msg, detail)

----------------------------------------------------------------------------
(* wes/utils.py *)

RECURSIVE bit_length(_)
bit_length(i) ==
    IF i < 0 THEN bit_length(-i)
    ELSE IF i = 0 THEN 0
    ELSE 1 + bit_length(i \div 2)

Max(a, b) == IF a >= b THEN a ELSE b

byte_length(i) == Max(1, (bit_length(i) + 7) \div 8)

\* le_bytes(i, n): the n low-order bytes of i, least significant first.
le_bytes(i, n) == [k \in 1..n |-> (i \div (256 ^ (k - 1))) % 256]

----------------------------------------------------------------------------
(* wes/parser.py: operators and Expr.eval *)

\* Python's bitwise operators on unbounded two's-complement integers.
RECURSIVE and_(_, _)
and_(a, b) ==
    IF a = 0 \/ b = 0 THEN 0
    ELSE IF a = -1 THEN b
    ELSE IF b = -1 THEN a
    ELSE (IF a % 2 = 1 /\ b % 2 = 1 THEN 1 ELSE 0)
         + 2 * and_(a \div 2, b \div 2)

invert(a) == -a - 1

or_(a, b) == invert(and_(invert(a), invert(b)))

xor(a, b) == or_(a, b) - and_(a, b)

floordiv(a, b) == a \div b

mod(a, b) == a - b * (a \div b)

UN_OPS == {"-", "~"}
BIN_OPS == {"|", "^", "&", "<<", ">>", "+", "-", "*", "/", "%", "**"}

\* fn(x) for fn = UN_OPS[op]
ApplyUn(op, x) ==
    IF op = "-" THEN Ok(-x) ELSE Ok(invert(x))

\* fn(x, y) for fn = BIN_OPS[op], with the exceptions Python's operators raise
ApplyBin(op, x, y) ==
    CASE op = "|" -> Ok(or_(x, y))
      [] op = "^" -> Ok(xor(x, y))
      [] op = "&" -> Ok(and_(x, y))
      [] op = "<<" -> IF y < 0 THEN Raise("ValueError", "negative shift count", "")
                      ELSE Ok(x * (2 ^ y))
      [] op = ">>" -> IF y < 0 THEN Raise("ValueError", "negative shift count", "")
                      ELSE Ok(x \div (2 ^ y))
      [] op = "+" -> Ok(x + y)
      [] op = "-" -> Ok(x - y)
      [] op = "*" -> Ok(x * y)
      [] op = "/" -> IF y = 0
                     THEN Raise("ZeroDivisionError", "integer division or modulo by zero", "")
                     ELSE Ok(floordiv(x, y))
      [] op = "%" -> IF y = 0
                     THEN Raise("ZeroDivisionError", "integer division or modulo by zero", "")
                     ELSE Ok(mod(x, y))
      [] op = "**" -> IF y >= 0 THEN Ok(x ^ y)
                      ELSE IF x = 0
                      THEN Raise("ZeroDivisionError", "0 cannot be raised to a negative power", "")
                      \* the result is a float, which no later step handles as an int
                      ELSE Raise("TypeError", "float result", "")

RECURSIVE eval(_, _)
eval(e, sc) ==
    CASE e[1] = "Val" -> Ok(e[2])
      [] e[1] = "Name" ->
            IF e[2] \in DOMAIN sc THEN Ok(sc[e[2]])
            ELSE Message("name is not bound to any value", e[2])
      [] e[1] = "UnExpr" ->
            IF e[2] \notin UN_OPS THEN Raise("Exception", "invariant", "")
            ELSE LET x == eval(e[3], sc)
                 IN IF IsOk(x) THEN ApplyUn(e[2], x[2]) ELSE x
      [] e[1] = "BinExpr" ->
            IF e[3] \notin BIN_OPS THEN Raise("Exception", "invariant", "")
            ELSE LET x == eval(e[2], sc)
                 IN IF ~IsOk(x) THEN x
                    ELSE LET y == eval(e[4], sc)
                         IN IF ~IsOk(y) THEN y
                            ELSE ApplyBin(e[3], x[2], y[2])
      [] OTHER -> Raise("Exception", "invariant", "")

IsExpr(s) == s[1] \in {"Val", "Name", "UnExpr", "BinExpr", "Deref"}

----------------------------------------------------------------------------
(* wes/pattern.py *)
(* A term is a Var <<"Var", name, predicate>>, a concrete leaf <<"int", n>> *)
(* or <<"str", s>>, or a Pattern: any other tagged tuple.                   *)

Var(name) == <<"Var", name, "None">>
T == Var("T")

IsVar(t) == t[1] = "Var"
IsLeaf(t) == t[1] \in {"int", "str"}
IsPattern(t) == ~IsVar(t) /\ ~IsLeaf(t)

\* Pattern.params: the slots of a node that are not annotations, in slot order
params(t) ==
    CASE t[1] = "Val" -> << <<"int", t[2]>> >>
      [] t[1] = "Name" -> << <<"str", t[2]>> >>
      [] t[1] = "UnExpr" -> << <<"str", t[2]>>, t[3] >>
      [] t[1] = "BinExpr" -> << t[2], <<"str", t[3]>>, t[4] >>
      [] OTHER -> Tail(t)

\* type(term)(*ps): a slot that held a concrete value keeps it when the
\* parameter given for it is concrete, and holds the term otherwise
Unleaf(p) == IF IsLeaf(p) THEN p[2] ELSE p

construct(tag, ps) ==
    CASE tag = "Val" -> <<"Val", Unleaf(ps[1])>>
      [] tag = "Name" -> <<"Name", Unleaf(ps[1])>>
      [] tag = "UnExpr" -> <<"UnExpr", Unleaf(ps[1]), ps[2]>>
      [] tag = "BinExpr" -> <<"BinExpr", ps[1], Unleaf(ps[2]), ps[3]>>
      [] OTHER -> <<tag>> \o ps

\* Var.predicate applied to y (the predicates are those of tests/test_pattern.py)
predicate_holds(p, y) ==
    CASE p = "None" -> TRUE
      [] p = "string_or_integer" -> y = <<"String">> \/ y = <<"Integer">>
      [] p = "never_match" -> FALSE
      [] OTHER -> TRUE

RECURSIVE occurs_check(_, _)
occurs_check(v, term) ==
    IF v = term THEN TRUE
    ELSE IF IsPattern(term)
    THEN \E i \in 1..Len(params(term)) : occurs_check(v, params(term)[i])
    ELSE FALSE

\* occurs_check(v, equations) for the deque of (lhs, rhs) tuples
occurs_check_eqs(v, equations) ==
    \E i \in 1..Len(equations) :
        occurs_check(v, equations[i][1]) \/ occurs_check(v, equations[i][2])

RECURSIVE apply_sub(_, _, _)
apply_sub(v, x, term) ==
    IF IsVar(term) THEN (IF term = v THEN x ELSE term)
    ELSE IF IsPattern(term)
    THEN construct(term[1],
                   [i \in 1..Len(params(term)) |-> apply_sub(v, x, params(term)[i])])
    ELSE term

\* apply_sub(v, x, equations) for the deque of (lhs, rhs) tuples
apply_sub_eqs(v, x, equations) ==
    [i \in 1..Len(equations) |->
        <<apply_sub(v, x, equations[i][1]), apply_sub(v, x, equations[i][2])>>]

\* zip(x.params, y.params)
zip_params(x, y) ==
    LET n == IF Len(params(x)) <= Len(params(y)) THEN Len(params(x)) ELSE Len(params(y))
    IN [i \in 1..n |-> <<params(x)[i], params(y)[i]>>]

\* the while loop of unify; returns the queue it ends with
RECURSIVE unify_loop(_, _)
unify_loop(equations, rule_misses) ==
    IF ~(Len(equations) > rule_misses) THEN Ok(equations)
    ELSE
    LET x == Head(equations)[1]
        y == Head(equations)[2]
        rest == Tail(equations)
    IN  IF x = y THEN unify_loop(rest, 0)
        ELSE IF IsPattern(x) /\ IsPattern(y)
        THEN IF x[1] # y[1]
             THEN Raise("PatternError", "type mismatch", "")
             ELSE unify_loop(rest \o zip_params(x, y), 0)
        ELSE IF ~IsVar(x) /\ ~IsVar(y)
        THEN Raise("PatternError", "concrete mismatch", "")
        ELSE IF ~IsVar(x) /\ IsVar(y)
        THEN unify_loop(Append(rest, <<y, x>>), 0)
        ELSE \* isinstance(x, Var)
             IF occurs_check(x, y)
             THEN Raise("PatternError", "recursive self reference", "")
             ELSE IF x[3] # "None" /\ ~predicate_holds(x[3], y)
             THEN Raise("PatternError", "did not satisfy predicate", "")
             ELSE IF occurs_check_eqs(x, rest)
             THEN unify_loop(Append(apply_sub_eqs(x, y, rest), <<x, y>>), 0)
             ELSE unify_loop(Append(rest, <<x, y>>), rule_misses + 1)

\* dict(equations): a later pair for a key replaces an earlier one
dict(equations) ==
    [k \in {equations[i][1] : i \in 1..Len(equations)} |->
        LET last == CHOOSE i \in 1..Len(equations) :
                        /\ equations[i][1] = k
                        /\ \A j \in (i + 1)..Len(equations) : equations[j][1] # k
        IN equations[last][2]]

unify(lhs, rhs) ==
    LET r == unify_loop(<< <<lhs, rhs>> >>, 0)
    IN IF IsOk(r) THEN Ok(dict(r[2])) ELSE r

----------------------------------------------------------------------------
(* wes/compilers/wdc.py: Format *)

Deref(e) == <<"Deref", e>>
BinExpr(x, op, y) == <<"BinExpr", x, op, y>>
Name(n) == <<"Name", n>>
Val(n) == <<"Val", n>>

\* the Format enum had DIR been declared before the indexed templates
FormatOrder_DirFirst == <<"IDX_IND", "IND", "IND_Y", "DIR", "IDX_X", "IDX_Y", "IMM">>

\* the members of the Format enum, in declaration order
FormatOrder == <<"IDX_IND", "IND", "IND_Y", "IDX_X", "IDX_Y", "DIR", "IMM">>

\* Format.<name>.value with t in the place of the variable
FormatTemplate(fmt, t) ==
    CASE fmt = "IDX_IND" -> Deref(Deref(BinExpr(t, "+", Name("x"))))
      [] fmt = "IND" -> Deref(Deref(t))
      [] fmt = "IND_Y" -> Deref(BinExpr(Deref(t), "+", Name("y")))
      [] fmt = "IDX_X" -> Deref(BinExpr(t, "+", Name("x")))
      [] fmt = "IDX_Y" -> Deref(BinExpr(t, "+", Name("y")))
      [] fmt = "DIR" -> Deref(t)
      [] fmt = "IMM" -> t

FormatValue(fmt) == FormatTemplate(fmt, T)

\* the for loop of Format.match from its i-th member on
RECURSIVE match_from(_, _, _)
match_from(order, i, arg) ==
    IF i > Len(order) THEN Raise("Exception", "invariant", "")
    ELSE LET subs == unify(arg, FormatValue(order[i]))
         IN IF ~IsOk(subs) THEN match_from(order, i + 1, arg)
            ELSE IF T \in DOMAIN subs[2] THEN Ok(<<order[i], subs[2][T]>>)
            ELSE Raise("KeyError", "T", "")

match(arg) == match_from(FormatOrder, 1, arg)

FORMAT_NAMES ==
    [fmt \in {"DIR", "IDX_IND", "IDX_X", "IDX_Y", "IND", "IND_Y", "IMM"} |->
        CASE fmt = "DIR" -> "direct"
          [] fmt = "IDX_IND" -> "indexed indirect"
          [] fmt = "IDX_X" -> "indexed with x"
          [] fmt = "IDX_Y" -> "indexed with y"
          [] fmt = "IND" -> "indirect"
          [] fmt = "IND_Y" -> "indirect indexed with y"
          [] fmt = "IMM" -> "immediate"]

----------------------------------------------------------------------------
(* Targets: wes/compilers/sap.py (CompileSap) and wes/compilers/wdc.py      *)
(* (Compile6502)                                                            *)

Targets == {"sap", "wdc"}

max_addr(t) == IF t = "sap" THEN 15 ELSE 65535
max_val(t) == 255

MAX_WORD == 65535

\* SapUnary.code of each SAP unary mnemonic
SapCodes ==
    ("lda" :> 1) @@ ("add" :> 2) @@ ("sub" :> 3) @@ ("sta" :> 4) @@
    ("ldi" :> 5) @@ ("jmp" :> 6) @@ ("jc" :> 7) @@ ("jz" :> 8)

\* Constant.output of each SAP nullary mnemonic
SapOutputs == ("nop" :> 0) @@ ("out" :> 224) @@ ("hlt" :> 240)

\* RelativeUnary.op_code of each 6502 branch mnemonic
RelativeCodes ==
    ("bbr0" :> 15) @@ ("bbr1" :> 31) @@ ("bbr2" :> 47) @@ ("bbr3" :> 63) @@
    ("bbr4" :> 79) @@ ("bbr5" :> 95) @@ ("bbr6" :> 111) @@ ("bbr7" :> 127) @@
    ("bbs0" :> 143) @@ ("bbs1" :> 159) @@ ("bbs2" :> 175) @@ ("bbs3" :> 191) @@
    ("bbs4" :> 207) @@ ("bbs5" :> 223) @@ ("bbs6" :> 239) @@ ("bbs7" :> 255) @@
    ("bcc" :> 144) @@ ("bcs" :> 176) @@ ("beq" :> 240)

\* WdcUnary.op_codes of each 6502 mnemonic; the key None is <<"None", 0>>
AdcCodes ==
    (<<"DIR", 2>> :> 109) @@ (<<"IDX_X", 2>> :> 125) @@ (<<"IDX_Y", 2>> :> 121) @@
    (<<"IMM", 1>> :> 105) @@ (<<"DIR", 1>> :> 101) @@ (<<"IDX_IND", 1>> :> 97) @@
    (<<"IDX_X", 1>> :> 117) @@ (<<"IND", 1>> :> 114) @@ (<<"IND_Y", 1>> :> 113)

AndCodes ==
    (<<"DIR", 2>> :> 45) @@ (<<"IDX_X", 2>> :> 61) @@ (<<"IDX_Y", 2>> :> 57) @@
    (<<"IMM", 1>> :> 41) @@ (<<"DIR", 1>> :> 37) @@ (<<"IDX_IND", 1>> :> 33) @@
    (<<"IDX_X", 1>> :> 53) @@ (<<"IND", 1>> :> 50) @@ (<<"IND_Y", 1>> :> 49)

AslCodes ==
    (<<"DIR", 2>> :> 14) @@ (<<"IDX_X", 2>> :> 30) @@ (<<"None", 0>> :> 10) @@
    (<<"DIR", 1>> :> 6) @@ (<<"IDX_X", 1>> :> 22)

LdaCodes ==
    (<<"DIR", 2>> :> 173) @@ (<<"IDX_X", 2>> :> 189) @@ (<<"IDX_Y", 2>> :> 185) @@
    (<<"IMM", 1>> :> 169) @@ (<<"DIR", 1>> :> 165) @@ (<<"IDX_IND", 1>> :> 161) @@
    (<<"IDX_X", 1>> :> 181) @@ (<<"IND", 1>> :> 178) @@ (<<"IND_Y", 1>> :> 177)

LdxCodes ==
    (<<"DIR", 2>> :> 174) @@ (<<"IDX_Y", 2>> :> 190) @@ (<<"IMM", 1>> :> 162) @@
    (<<"DIR", 1>> :> 166) @@ (<<"IDX_Y", 1>> :> 182)

WdcCodes ==
    ("adc" :> AdcCodes) @@ ("and" :> AndCodes) @@ ("asl" :> AslCodes) @@
    ("lda" :> LdaCodes) @@ ("ldx" :> LdxCodes)

\* Constant.output of the 6502 nullary mnemonic
WdcOutputs == ("nop" :> 234)

\* Compiler.instructions: mnemonic -> <<class, class attribute>>
instructions(t) ==
    IF t = "sap"
    THEN [m \in DOMAIN SapCodes |-> <<"SapUnary", SapCodes[m]>>]
         @@ [m \in DOMAIN SapOutputs |-> <<"Constant", SapOutputs[m]>>]
         @@ ("word" :> <<"Word", 0>>)
    ELSE [m \in DOMAIN WdcCodes |-> <<"WdcUnary", WdcCodes[m]>>]
         @@ [m \in DOMAIN RelativeCodes |-> <<"RelativeUnary", RelativeCodes[m]>>]
         @@ [m \in DOMAIN WdcOutputs |-> <<"Constant", WdcOutputs[m]>>]

----------------------------------------------------------------------------
(* wes/instruction.py and the target instruction classes: an instruction    *)
(* object is a tuple <<class, mnemonic, ...fields>>                         *)

\* Value.validate
Value_validate(t, val) ==
    IF val[2] > max_val(t)
    THEN Message("evaluated result is too large", val[2])
    ELSE Ok(<<"Value", "", val[2]>>)

\* Nullary.validate
Nullary_validate(op) ==
    IF Len(op[3]) > 0
    THEN Message("instruction takes no argument", op[2])
    ELSE Ok(op)

\* Unary.validate
Unary_validate(op) ==
    IF Len(op[3]) # 1
    THEN Message("instruction takes one argument", op[2])
    ELSE Ok(op)

\* WdcUnary.validate with one argument, had _size left the opcode byte out
WdcUnary_validate_arg_NoOpcodeByte(op, op_codes, fmt, arg, sc) ==
    LET evaled == eval(arg, sc)
    IN IF ~IsOk(evaled) THEN evaled
       ELSE LET b_len == byte_length(evaled[2])
            IN IF b_len > 2
               THEN Message("evaluated result does not fit in two bytes", evaled[2])
               ELSE IF <<fmt, b_len>> \notin DOMAIN op_codes
               THEN Message("instruction does not support addressing mode",
                            <<FORMAT_NAMES[fmt], b_len>>)
               ELSE Ok(<<"WdcUnary", op[2], op_codes[<<fmt, b_len>>],
                         le_bytes(evaled[2], b_len), b_len>>)

\* WdcUnary.validate with one argument, after Format.match gave fmt and arg
WdcUnary_validate_arg(op, op_codes, fmt, arg, sc) ==
    LET evaled == eval(arg, sc)
    IN IF ~IsOk(evaled) THEN evaled
       ELSE LET b_len == byte_length(evaled[2])
            IN IF b_len > 2
               THEN Message("evaluated result does not fit in two bytes", evaled[2])
               ELSE IF <<fmt, b_len>> \notin DOMAIN op_codes
               THEN Message("instruction does not support addressing mode",
                            <<FORMAT_NAMES[fmt], b_len>>)
               ELSE Ok(<<"WdcUnary", op[2], op_codes[<<fmt, b_len>>],
                         le_bytes(evaled[2], b_len), b_len + 1>>)

\* WdcUnary.validate
WdcUnary_validate(op, op_codes, sc) ==
    LET n_args == Len(op[3])
    IN IF n_args = 0
       THEN IF <<"None", 0>> \notin DOMAIN op_codes
            THEN Message("instruction expects an argument", op[2])
            ELSE Ok(<<"WdcUnary", op[2], op_codes[<<"None", 0>>], <<>>, 1>>)
       ELSE IF n_args = 1
       THEN LET m == match(op[3][1])
            IN IF ~IsOk(m) THEN m
               ELSE WdcUnary_validate_arg(op, op_codes, m[2][1], m[2][2], sc)
       ELSE Message("instruction expects one argument", op[2])

\* RelativeUnary.validate
RelativeUnary_validate(op, op_code, sc) ==
    LET n_args == Len(op[3])
    IN IF n_args = 0
       THEN Message("instruction expects an argument", op[2])
       ELSE IF n_args = 1
       THEN LET evaled == eval(op[3][1], sc)
            IN IF ~IsOk(evaled) THEN evaled
               ELSE IF byte_length(evaled[2]) > 1
               THEN Message("evaluated result does not fit in one byte", evaled[2])
               ELSE Ok(<<"RelativeUnary", op[2], op_code, evaled[2]>>)
       ELSE Message("instruction expects one argument", op[2])

\* Compiler.get_instruction: look the class up, construct it, validate it
get_instruction(t, stmt, sc) ==
    IF stmt[1] = "Op"
    THEN IF stmt[2] \notin DOMAIN instructions(t)
         THEN Message("unrecognized instruction", stmt[2])
         ELSE LET cls == instructions(t)[stmt[2]]
              IN CASE cls[1] = "Constant" ->
                        LET v == Nullary_validate(stmt)
                        IN IF IsOk(v) THEN Ok(<<"Constant", stmt[2], cls[2]>>) ELSE v
                   [] cls[1] = "SapUnary" ->
                        LET v == Unary_validate(stmt)
                        IN IF IsOk(v) THEN Ok(<<"SapUnary", stmt[2], cls[2], stmt[3][1]>>)
                           ELSE v
                   [] cls[1] = "Word" ->
                        LET v == Unary_validate(stmt)
                        IN IF IsOk(v) THEN Ok(<<"Word", stmt[2], stmt[3][1]>>) ELSE v
                   [] cls[1] = "WdcUnary" -> WdcUnary_validate(stmt, cls[2], sc)
                   [] cls[1] = "RelativeUnary" -> RelativeUnary_validate(stmt, cls[2], sc)
    ELSE IF stmt[1] = "Val"
    THEN Value_validate(t, stmt)
    ELSE Raise("Exception", "invariant", "")

\* Instruction.size
size(inst) ==
    CASE inst[1] = "Value" -> byte_length(inst[3])
      [] inst[1] = "Constant" -> byte_length(inst[3])
      [] inst[1] = "SapUnary" -> 1
      [] inst[1] = "Word" -> 2
      [] inst[1] = "WdcUnary" -> inst[5]
      [] inst[1] = "RelativeUnary" -> 2

\* isinstance(inst, Operation)
IsOperation(inst) == inst[1] # "Value"

\* SapUnary.encode
SapUnary_encode(t, inst, sc) ==
    LET evaled == eval(inst[4], sc)
    IN IF ~IsOk(evaled) THEN evaled
       ELSE IF evaled[2] > max_addr(t)
       THEN Message("evaluated result is too large", evaled[2])
       ELSE Ok(<<inst[3] * 16 + evaled[2]>>)

\* Word.encode: the operand is evaluated against Compiler.labels
Word_encode(inst, lbls) ==
    LET evaled == eval(inst[3], lbls)
    IN IF ~IsOk(evaled) THEN evaled
       ELSE IF evaled[2] > MAX_WORD
       THEN Message("evaluated result does not fit in two bytes", evaled[2])
       ELSE Ok(<<and_(evaled[2], 255), and_(evaled[2] \div 256, 255)>>)

\* Instruction.encode, as the list of the values it yields
encode(t, inst, sc, lbls) ==
    CASE inst[1] = "Value" -> Ok(<<inst[3]>>)
      [] inst[1] = "Constant" -> Ok(<<inst[3]>>)
      [] inst[1] = "SapUnary" -> SapUnary_encode(t, inst, sc)
      [] inst[1] = "Word" -> Word_encode(inst, lbls)
      [] inst[1] = "WdcUnary" -> Ok(<<inst[3]>> \o inst[4])
      [] inst[1] = "RelativeUnary" -> Ok(<<inst[3], inst[4]>>)

----------------------------------------------------------------------------
(* wes/compiler.py *)

\* the name checks of resolve_consts for one Const statement
const_check(t, name, const_names) ==
    IF name \in DOMAIN instructions(t)
    THEN Message("constant uses reserved name", name)
    ELSE IF name \in const_names
    THEN Message("redefinition of constant", name)
    ELSE Ok(name)

\* the first loop of resolve_consts from statement i on: the Const statements
\* in source order, or the first name error
RECURSIVE collect_consts(_, _, _, _, _)
collect_consts(t, ss, i, const_stmts, const_names) ==
    IF i > Len(ss) THEN Ok(const_stmts)
    ELSE IF ss[i][1] # "Const"
    THEN collect_consts(t, ss, i + 1, const_stmts, const_names)
    ELSE LET c == const_check(t, ss[i][2], const_names)
         IN IF ~IsOk(c) THEN c
            ELSE collect_consts(t, ss, i + 1, Append(const_stmts, ss[i]),
                                const_names \cup {ss[i][2]})

\* the second loop of resolve_consts from the i-th Const on: <<result, consts>>,
\* where consts holds what had been assigned when the loop ended
RECURSIVE eval_consts(_, _, _)
eval_consts(const_stmts, i, cnsts) ==
    IF i > Len(const_stmts) THEN <<Ok(0), cnsts>>
    ELSE LET v == eval(const_stmts[i][3], cnsts)
         IN IF ~IsOk(v) THEN <<v, cnsts>>
            ELSE eval_consts(const_stmts, i + 1,
                             (const_stmts[i][2] :> v[2]) @@ cnsts)

\* resolve_consts, had the second loop run over const_stmts backwards
resolve_consts_Reversed(t, ss, cnsts) ==
    LET c == collect_consts(t, ss, 1, <<>>, {})
    IN IF ~IsOk(c) THEN <<c, cnsts>>
       ELSE eval_consts([k \in 1..Len(c[2]) |-> c[2][Len(c[2]) + 1 - k]], 1, cnsts)

\* Compiler.resolve_consts: <<result, consts>>
resolve_consts(t, ss, cnsts) ==
    LET c == collect_consts(t, ss, 1, <<>>, {})
    IN IF ~IsOk(c) THEN <<c, cnsts>>
       ELSE eval_consts(c[2], 1, cnsts)

\* the name checks of scan for one Label statement, had the check against
\* the constants been left out
label_check_NoConsts(t, name, lbls, cnsts) ==
    IF name \in DOMAIN instructions(t)
    THEN Message("label uses reserved name", name)
    ELSE IF name \in DOMAIN lbls
    THEN Message("redefinition of label", name)
    ELSE Ok(name)

\* the name checks of scan for one Label statement
label_check(t, name, lbls, cnsts) ==
    IF name \in DOMAIN instructions(t)
    THEN Message("label uses reserved name", name)
    ELSE IF name \in DOMAIN lbls
    THEN Message("redefinition of label", name)
    ELSE IF name \in DOMAIN cnsts
    THEN Message("label name collides with constant name", name)
    ELSE Ok(name)

\* Compiler.resolve_offset, had the back offset been added to max_addr
resolve_offset_BackAdded(t, l, offset) ==
    LET offset_loc ==
            IF offset[3] = "+" THEN l + offset[2]
            ELSE IF offset[3] = "-" THEN max_addr(t) + offset[2] + 1
            ELSE offset[2]
    IN IF offset_loc > max_addr(t)
       THEN Message("offset resolves to oversized location", offset_loc)
       ELSE IF offset_loc < l
       THEN Message("offset resolves to location before current position", offset_loc)
       ELSE Ok(offset_loc)

\* Compiler.resolve_offset
resolve_offset(t, l, offset) ==
    LET offset_loc ==
            IF offset[3] = "+" THEN l + offset[2]
            ELSE IF offset[3] = "-" THEN max_addr(t) - offset[2] + 1
            ELSE offset[2]
    IN IF offset_loc > max_addr(t)
       THEN Message("offset resolves to oversized location", offset_loc)
       ELSE IF offset_loc < l
       THEN Message("offset resolves to location before current position", offset_loc)
       ELSE Ok(offset_loc)

\* the rewriting of an Op/Expr statement that scan and __iter__ both do
rewrite(stmt, cnsts, sc) ==
    IF stmt[1] = "Name"
    THEN IF stmt[2] \in DOMAIN cnsts
         THEN Ok(<<"Val", cnsts[stmt[2]]>>)
         ELSE Ok(<<"Op", stmt[2], <<>>>>)
    ELSE IF IsExpr(stmt)
    THEN LET v == eval(stmt, sc)
         IN IF IsOk(v) THEN Ok(<<"Val", v[2]>>) ELSE v
    ELSE Ok(stmt)

\* rewrite the statement, then get_instruction
make_instruction(t, stmt, cnsts, sc) ==
    LET r == rewrite(stmt, cnsts, sc)
    IN IF ~IsOk(r) THEN r ELSE get_instruction(t, r[2], sc)

\* the check scan makes before it adds an instruction
too_large(t, l) == l > max_addr(t)

\* the Offset branch of scan: the new loc, or the exception
scan_offset(t, l, offset, inst) ==
    LET offset_loc == resolve_offset(t, l, offset)
    IN IF ~IsOk(offset_loc) THEN offset_loc
       ELSE IF inst = None
       THEN Message("offset must follow generated code usable as padding", "")
       ELSE IF (offset_loc[2] - l) % size(inst) # 0
       THEN IF IsOperation(inst)
            THEN Message("size of padding instruction is not a divisor of padding length",
                         inst[2])
            ELSE Raise("Exception", "invariant", "")
       ELSE offset_loc

\* n copies of the values bs
RECURSIVE repeat(_, _)
repeat(bs, n) == IF n <= 0 THEN <<>> ELSE bs \o repeat(bs, n - 1)

\* the Offset branch of __iter__ without its last line, loc = offset_loc
iter_offset_Stay(t, l, offset, inst, sc, lbls) ==
    LET offset_loc == resolve_offset(t, l, offset)
    IN IF ~IsOk(offset_loc) THEN offset_loc
       ELSE IF inst = None
       THEN Raise("AttributeError", "NoneType has no attribute size", "")
       ELSE LET copies == (offset_loc[2] - l) \div size(inst)
                bs == encode(t, inst, sc, lbls)
            IN IF copies <= 0 THEN Ok(<<l, <<>>>>)
               ELSE IF ~IsOk(bs) THEN bs
               ELSE Ok(<<l, repeat(bs[2], copies)>>)

\* the Offset branch of __iter__: <<new loc, padding>>, or the exception
iter_offset(t, l, offset, inst, sc, lbls) ==
    LET offset_loc == resolve_offset(t, l, offset)
    IN IF ~IsOk(offset_loc) THEN offset_loc
       ELSE IF inst = None
       THEN Raise("AttributeError", "NoneType has no attribute size", "")
       ELSE LET copies == (offset_loc[2] - l) \div size(inst)
                bs == encode(t, inst, sc, lbls)
            IN IF copies <= 0 THEN Ok(<<offset_loc[2], <<>>>>)
               ELSE IF ~IsOk(bs) THEN bs
               ELSE Ok(<<offset_loc[2], repeat(bs[2], copies)>>)

----------------------------------------------------------------------------
(* The programs the compiler is run on *)

SapStmts ==
    { Val(0),
      BinExpr(Val(1), "/", Val(0)),
      <<"Label", "foo">>,
      <<"Label", "lda">>,
      <<"Const", "foo", Val(5)>>,
      <<"Const", "lda", Val(1)>>,
      <<"Const", "bar", Name("foo")>>,
      <<"Offset", 2, "+">>,
      <<"Offset", 1, "-">>,
      <<"Op", "lda", <<Name("foo")>>>>,
      <<"Op", "word", <<Name("foo")>>>>,
      <<"Op", "word", <<Val(0)>>>>,
      Name("nop") }

WdcStmts ==
    { Val(0),
      <<"UnExpr", "-", Val(256)>>,
      <<"Label", "foo">>,
      <<"Const", "foo", Val(5)>>,
      <<"Offset", 2, "+">>,
      <<"Offset", 15, "none">>,
      <<"Op", "lda", <<Deref(Name("foo"))>>>>,
      <<"Op", "lda", <<Val(256)>>>>,
      <<"Op", "lda", <<Deref(Val(256))>>>>,
      <<"Op", "bcc", <<Name("foo")>>>>,
      Name("nop"),
      Name("asl") }

StmtsOf(t) == IF t = "sap" THEN SapStmts ELSE WdcStmts

Programs(t) == UNION {[1..n -> StmtsOf(t)] : n \in 1..MaxStmts}

----------------------------------------------------------------------------
(* The compiler run: list(compiler), that is Compiler.__iter__ with its     *)
(* call of scan, one step per statement of each pass                        *)

Running == err = NoErr

Stmt == stmts[idx]

InLoop(p) == Running /\ phase = p /\ idx <= Len(stmts)

Fail(r) ==
    /\ err' = ErrOf(r)
    /\ UNCHANGED <<target, stmts, phase, idx, loc, last_inst, labels, scope, out,
                   call, ret>>

Init ==
    /\ target \in Targets
    /\ stmts \in Programs(target)
    /\ phase = "init"
    /\ idx = 0
    /\ loc = 0
    /\ last_inst = None
    /\ labels = EmptyMap
    /\ consts = EmptyMap
    /\ scope = EmptyMap
    /\ out = <<>>
    /\ err = NoErr
    /\ call = NoCall
    /\ ret = NoCall

\* scan: resolve_consts, then the loop starts
ScanStart ==
    /\ Running /\ phase = "init"
    /\ LET r == resolve_consts(target, stmts, consts)
       IN /\ consts' = r[2]
          /\ IF IsOk(r[1])
             THEN /\ scope' = r[2] @@ scope
                  /\ phase' = "scan"
                  /\ idx' = 1
                  /\ loc' = 0
                  /\ last_inst' = None
                  /\ UNCHANGED <<target, stmts, labels, out, err, call, ret>>
             ELSE /\ err' = ErrOf(r[1])
                  /\ UNCHANGED <<target, stmts, phase, idx, loc, last_inst, labels,
                                 scope, out, call, ret>>

\* scan: a Const statement
ScanConst ==
    /\ InLoop("scan") /\ Stmt[1] = "Const"
    /\ idx' = idx + 1
    /\ UNCHANGED <<target, stmts, phase, loc, last_inst, labels, consts, scope,
                   out, err, call, ret>>

\* scan: a Label statement
ScanLabel ==
    /\ InLoop("scan") /\ Stmt[1] = "Label"
    /\ LET r == label_check(target, Stmt[2], labels, consts)
       IN IF IsOk(r)
          THEN /\ labels' = (Stmt[2] :> loc) @@ labels
               /\ scope' = (Stmt[2] :> loc) @@ scope
               /\ idx' = idx + 1
               /\ UNCHANGED <<target, stmts, phase, loc, last_inst, consts, out,
                              err, call, ret>>
          ELSE Fail(r) /\ UNCHANGED consts

\* scan: an Offset statement
ScanOffset ==
    /\ InLoop("scan") /\ Stmt[1] = "Offset"
    /\ LET r == scan_offset(target, loc, Stmt, last_inst)
       IN IF IsOk(r)
          THEN /\ loc' = r[2]
               /\ idx' = idx + 1
               /\ UNCHANGED <<target, stmts, phase, last_inst, labels, consts,
                              scope, out, err, call, ret>>
          ELSE Fail(r) /\ UNCHANGED consts

\* scan: an Op or Expr statement
ScanInst ==
    /\ InLoop("scan") /\ (Stmt[1] = "Op" \/ IsExpr(Stmt))
    /\ IF too_large(target, loc)
       THEN Fail(Message("statement makes program too large", "")) /\ UNCHANGED consts
       ELSE LET r == make_instruction(target, Stmt, consts, scope)
            IN IF IsOk(r)
               THEN /\ last_inst' = r[2]
                    /\ loc' = loc + size(r[2])
                    /\ idx' = idx + 1
                    /\ UNCHANGED <<target, stmts, phase, labels, consts, scope,
                                   out, err, call, ret>>
               ELSE Fail(r) /\ UNCHANGED consts

\* scan returns; the loop of __iter__ starts
ScanEnd ==
    /\ Running /\ phase = "scan" /\ idx > Len(stmts)
    /\ phase' = "iter"
    /\ idx' = 1
    /\ loc' = 0
    /\ last_inst' = None
    /\ UNCHANGED <<target, stmts, labels, consts, scope, out, err, call, ret>>

\* __iter__: an Op or Expr statement
IterInst ==
    /\ InLoop("iter") /\ (Stmt[1] = "Op" \/ IsExpr(Stmt))
    /\ LET r == make_instruction(target, Stmt, consts, scope)
       IN IF ~IsOk(r) THEN Fail(r) /\ UNCHANGED consts
          ELSE LET bs == encode(target, r[2], scope, labels)
               IN IF ~IsOk(bs)
                  THEN /\ err' = ErrOf(bs)
                       /\ last_inst' = r[2]
                       /\ UNCHANGED <<target, stmts, phase, idx, loc, labels,
                                      consts, scope, out, call, ret>>
                  ELSE /\ last_inst' = r[2]
                       /\ out' = out \o bs[2]
                       /\ loc' = loc + size(r[2])
                       /\ idx' = idx + 1
                       /\ UNCHANGED <<target, stmts, phase, labels, consts, scope,
                                      err, call, ret>>

\* __iter__: an Offset statement
IterOffset ==
    /\ InLoop("iter") /\ Stmt[1] = "Offset"
    /\ LET r == iter_offset(target, loc, Stmt, last_inst, scope, labels)
       IN IF IsOk(r)
          THEN /\ out' = out \o r[2][2]
               /\ loc' = r[2][1]
               /\ idx' = idx + 1
               /\ UNCHANGED <<target, stmts, phase, last_inst, labels, consts,
                              scope, err, call, ret>>
          ELSE Fail(r) /\ UNCHANGED consts

\* __iter__: a statement that generates no code
IterSkip ==
    /\ InLoop("iter") /\ Stmt[1] \in {"Label", "Const"}
    /\ idx' = idx + 1
    /\ UNCHANGED <<target, stmts, phase, loc, last_inst, labels, consts, scope,
                   out, err, call, ret>>

\* __iter__ is exhausted
IterEnd ==
    /\ Running /\ phase = "iter" /\ idx > Len(stmts)
    /\ phase' = "done"
    /\ UNCHANGED <<target, stmts, idx, loc, last_inst, labels, consts, scope,
                   out, err, call, ret>>

Next ==
    \/ ScanStart
    \/ ScanConst
    \/ ScanLabel
    \/ ScanOffset
    \/ ScanInst
    \/ ScanEnd
    \/ IterInst
    \/ IterOffset
    \/ IterSkip
    \/ IterEnd

Spec == Init /\ [][Next]_vars

----------------------------------------------------------------------------
(* Calls of single functions: call holds the function and its arguments,    *)
(* ret its result; the compiler is idle meanwhile                           *)

Idle ==
    /\ target = "sap"
    /\ stmts = <<>>
    /\ phase = "idle"
    /\ idx = 0
    /\ loc = 0
    /\ last_inst = None
    /\ labels = EmptyMap
    /\ consts = EmptyMap
    /\ scope = EmptyMap
    /\ out = <<>>
    /\ err = NoErr

Pending(f) == call[1] = f /\ ret = NoCall
Returned(f) == call[1] = f /\ ret # NoCall

\* resolve_offset(loc, offset) on each target, for cursors and offsets around
\* zero and around the end of the address space
NearEnd(t) == (max_addr(t) - 2)..(max_addr(t) + 2)

OffsetCalls ==
    {<<"resolve_offset", t, l, <<"Offset", n, rel>>>> :
        t \in Targets,
        l \in (0..MaxLoc) \cup NearEnd("wdc"),
        n \in (0..MaxOffset) \cup NearEnd("wdc"),
        rel \in {"none", "+", "-"}}

InitOffset == Idle /\ call \in OffsetCalls /\ ret = NoCall

CallResolveOffset ==
    /\ Pending("resolve_offset")
    /\ ret' = resolve_offset(call[2], call[3], call[4])
    /\ UNCHANGED <<compilerVars, call>>

NextOffset == CallResolveOffset

SpecOffset == InitOffset /\ [][NextOffset]_vars

\* Format.match(arg) for arguments nested up to MaxWrap deep
Atoms == {Val(42), Name("x"), Name("y"), Name("a")}

Wraps(e) ==
    { Deref(e),
      BinExpr(e, "+", Name("x")),
      BinExpr(e, "+", Name("y")),
      BinExpr(e, "-", Name("x")),
      BinExpr(Name("x"), "+", e),
      <<"UnExpr", "-", e>> }

RECURSIVE Args(_)
Args(n) ==
    IF n = 0 THEN Atoms
    ELSE Args(n - 1) \cup UNION {Wraps(e) : e \in Args(n - 1)}

InitMatch == Idle /\ call \in {<<"match", a>> : a \in Args(MaxWrap)} /\ ret = NoCall

CallMatch ==
    /\ Pending("match")
    /\ ret' = match(call[2])
    /\ UNCHANGED <<compilerVars, call>>

NextMatch == CallMatch

SpecMatch == InitMatch /\ [][NextMatch]_vars

\* a one-argument WdcUnary instruction: the mnemonic, the addressing mode the
\* argument is written in and the operand expression; the instruction is
\* constructed (validate) and then encoded
OperandScope == ("foo" :> 5) @@ ("big" :> 4660)

Operands ==
    {Val(256 ^ k - 1) : k \in 0..MaxBytes} \cup {Val(256 ^ k) : k \in 0..MaxBytes}
    \cup {<<"UnExpr", "-", Val(256 ^ k)>> : k \in 0..MaxBytes}
    \cup {<<"UnExpr", "~", Val(0)>>, Name("foo"), Name("big"), Name("nowhere"),
          BinExpr(Name("big"), "+", Val(1))}

WdcCalls ==
    {<<"WdcUnary", m, fmt, e>> :
        m \in DOMAIN WdcCodes, fmt \in DOMAIN FORMAT_NAMES, e \in Operands}

InitWdc == Idle /\ call \in WdcCalls /\ ret = NoCall

CallWdcUnary ==
    /\ Pending("WdcUnary")
    /\ LET op == <<"Op", call[2], <<FormatTemplate(call[3], call[4])>>>>
           inst == WdcUnary_validate(op, WdcCodes[call[2]], OperandScope)
       IN ret' = IF IsOk(inst)
                 THEN <<"ok", inst[2], encode("wdc", inst[2], OperandScope, EmptyMap)>>
                 ELSE inst
    /\ UNCHANGED <<compilerVars, call>>

NextWdc == CallWdcUnary

SpecWdc == InitWdc /\ [][NextWdc]_vars

\* a SAP unary instruction: the mnemonic and the operand expression, encoded
\* against OperandScope
SapOperands ==
    {Val(n) : n \in 0..MaxOperand}
    \cup {<<"UnExpr", "-", Val(n)>> : n \in 1..MaxOperand}
    \cup {Name("foo"), Name("big"), Name("nowhere")}

SapCalls == {<<"SapUnary", m, e>> : m \in DOMAIN SapCodes, e \in SapOperands}

InitSap == Idle /\ call \in SapCalls /\ ret = NoCall

CallSapUnary ==
    /\ Pending("SapUnary")
    /\ ret' = SapUnary_encode("sap", <<"SapUnary", call[2], SapCodes[call[2]], call[3]>>,
                              OperandScope)
    /\ UNCHANGED <<compilerVars, call>>

NextSap == CallSapUnary

SpecSap == InitSap /\ [][NextSap]_vars

----------------------------------------------------------------------------
(* wes/lexer.py: a string is a sequence of one-character strings, a token   *)
(* is <<"Text", text, line_start, line_num, col>>, <<"Newline", line_start, *)
(* line_num, col>> or <<"Eof", line_start, line_num, col>>                  *)

COMMENT_CHR == ";"
JOINED == {"*", "<", ">"}
DISJOINED == {"-", "~", "+", "/", "^", "&", "|", "%", ":", ",", "[", "]", "(", ")"}
DELIM_PAIRS == ("[" :> "]") @@ ("(" :> ")")

\* str.isspace for one character
IsSpaceChr(c) == c \in {" ", "\n", "\t"}

\* str.isspace: true for a non-empty string of whitespace
isspace(s) == Len(s) > 0 /\ \A i \in 1..Len(s) : IsSpaceChr(s[i])

_char_type(c) ==
    IF IsSpaceChr(c) THEN "0"
    ELSE IF c \in JOINED THEN "1"
    ELSE IF c \in DISJOINED THEN "nan"
    ELSE "2"

\* curr_type != last_type, where nan differs from every value, itself included
TypesDiffer(a, b) == _char_type(a) # _char_type(b) \/ _char_type(a) = "nan"

\* the loop of tokenize with the cursor at i (1-based) and the current region
\* starting at last_pos
RECURSIVE tokenize_loop(_, _, _)
tokenize_loop(s, last_pos, i) ==
    IF i > Len(s) THEN <<SubSeq(s, last_pos, Len(s))>>
    ELSE IF TypesDiffer(s[i], s[i - 1])
    THEN <<SubSeq(s, last_pos, i - 1)>> \o tokenize_loop(s, i, i + 1)
    ELSE tokenize_loop(s, last_pos, i + 1)

tokenize(s) == IF Len(s) = 0 THEN <<>> ELSE tokenize_loop(s, 1, 2)

\* str.strip
RECURSIVE lstrip(_)
lstrip(s) == IF Len(s) > 0 /\ IsSpaceChr(s[1]) THEN lstrip(Tail(s)) ELSE s

RECURSIVE rstrip(_)
rstrip(s) ==
    IF Len(s) > 0 /\ IsSpaceChr(s[Len(s)]) THEN rstrip(SubSeq(s, 1, Len(s) - 1)) ELSE s

strip(s) == rstrip(lstrip(s))

startswith(s, c) == Len(s) > 0 /\ s[1] = c

\* buf.readline() with the buffer at offset pos: up to and including the next
\* "\n", or the rest of the text; empty at the end of the buffer
RECURSIVE readline(_, _)
readline(text, pos) ==
    IF pos >= Len(text) THEN <<>>
    ELSE IF text[pos + 1] = "\n" THEN <<"\n">>
    ELSE <<text[pos + 1]>> \o readline(text, pos + 1)

TextTok(text, line_start, line_num, col) == <<"Text", text, line_start, line_num, col>>
NewlineTok(line_start, line_num, col) == <<"Newline", line_start, line_num, col>>
EofTok(line_start, line_num, col) == <<"Eof", line_start, line_num, col>>

\* pop_delim, had it not compared the closing delimiter with the expected one
pop_delim_AnyCloser(delims, tok) ==
    IF Len(delims) = 0
    THEN Message("unmatched closing delimiter", <<tok>>)
    ELSE Ok(SubSeq(delims, 1, Len(delims) - 1))

\* Lexer.pop_delim: the new stack, or the Message it raises
pop_delim(delims, tok) ==
    IF Len(delims) = 0
    THEN Message("unmatched closing delimiter", <<tok>>)
    ELSE IF tok[2] # <<DELIM_PAIRS[delims[Len(delims)][2][1]]>>
    THEN Message("delimiter mistmatch", <<tok>>)
    ELSE Ok(SubSeq(delims, 1, Len(delims) - 1))

\* the for loop of Lexer.__iter__ over tokenize(line) from part k on:
\* <<result, delims, tokens yielded>>
RECURSIVE lex_parts(_, _, _, _, _, _, _)
lex_parts(parts, k, col, pos, line_num, delims, toks) ==
    IF k > Len(parts) THEN <<Ok(col), delims, toks>>
    ELSE LET part == parts[k]
             tok == TextTok(part, pos, line_num, col)
         IN IF isspace(part)
            THEN lex_parts(parts, k + 1, col + Len(part), pos, line_num, delims, toks)
            ELSE IF startswith(part, COMMENT_CHR)
            THEN <<Ok(col), delims, toks>>
            ELSE IF part \in {<<"[">>, <<"(">>}
            THEN lex_parts(parts, k + 1, col + Len(part), pos, line_num,
                           Append(delims, tok), Append(toks, tok))
            ELSE IF part \in {<<"]">>, <<")">>}
            THEN LET p == pop_delim(delims, tok)
                 IN IF ~IsOk(p) THEN <<p, delims, toks>>
                    ELSE lex_parts(parts, k + 1, col + Len(part), pos, line_num,
                                   p[2], Append(toks, tok))
            ELSE lex_parts(parts, k + 1, col + Len(part), pos, line_num,
                           delims, Append(toks, tok))

\* is_empty_line, had it not looked for the comment character
is_empty_line_NoComment(line) == Len(strip(line)) = 0

\* is_empty_line
is_empty_line(line) == Len(strip(line)) = 0 \/ startswith(strip(line), COMMENT_CHR)

\* A Lexer being iterated over the text call[2]:
\* <<"Lexer", pos, line_num, delims, tokens yielded, line, status, exception>>
LexerObj(pos, line_num, delims, toks, line, status, e) ==
    <<"Lexer", pos, line_num, delims, toks, line, status, e>>

Alphabet == {"a", " ", "\n", ";", "(", ")", "[", "]", "*"}

Texts == UNION {[1..n -> Alphabet] : n \in 0..MaxText}

Lexing == call[1] = "lex" /\ ret # NoCall /\ ret[7] = "run"

InitLex == Idle /\ call \in {<<"lex", s>> : s \in Texts} /\ ret = NoCall

\* Lexer.from_str(text) and the start of __iter__
LexStart ==
    /\ call[1] = "lex" /\ ret = NoCall
    /\ ret' = LexerObj(0, 0, <<>>, <<>>, <<>>, "run", NoErr)
    /\ UNCHANGED <<compilerVars, call>>

\* get_line raises EndOfBuffer: Eof, or the unmatched opening delimiter
LexEof ==
    /\ Lexing /\ readline(call[2], ret[2]) = <<>>
    /\ LET pos == ret[2]  line_num == ret[3]  delims == ret[4]  line == ret[6]
       IN ret' = IF Len(delims) > 0
                 THEN LexerObj(pos, line_num, delims, ret[5], line, "raise",
                               ErrOf(Message("unmatched opening delimiter",
                                             <<delims[Len(delims)]>>)))
                 ELSE LexerObj(pos, line_num, delims,
                               Append(ret[5], EofTok(pos - Len(line), line_num, Len(line))),
                               line, "done", NoErr)
    /\ UNCHANGED <<compilerVars, call>>

\* the skip of an empty line, had it not counted the line
LexSkipLine_NotCounted ==
    /\ Lexing
    /\ LET line == readline(call[2], ret[2])
       IN /\ line # <<>> /\ is_empty_line(line)
          /\ ret' = LexerObj(ret[2] + Len(line), ret[3], ret[4], ret[5], line,
                             "run", NoErr)
    /\ UNCHANGED <<compilerVars, call>>

\* an empty line or a comment line is skipped
LexSkipLine ==
    /\ Lexing
    /\ LET line == readline(call[2], ret[2])
       IN /\ line # <<>> /\ is_empty_line(line)
          /\ ret' = LexerObj(ret[2] + Len(line), ret[3] + 1, ret[4], ret[5], line,
                             "run", NoErr)
    /\ UNCHANGED <<compilerVars, call>>

\* a line with tokens: its Text tokens, then the Newline if no delimiter is open
LexLine ==
    /\ Lexing
    /\ LET line == readline(call[2], ret[2])
           pos == ret[2]
           line_num == ret[3] + 1
           r == lex_parts(tokenize(line), 1, 0, pos, line_num, ret[4], ret[5])
           nl == NewlineTok(pos, line_num,
                            IF line[Len(line)] = "\n" THEN Len(line) - 1 ELSE Len(line))
       IN /\ line # <<>> /\ ~is_empty_line(line)
          /\ ret' = IF ~IsOk(r[1])
                    THEN LexerObj(pos, line_num, r[2], r[3], line, "raise", ErrOf(r[1]))
                    ELSE LexerObj(pos + Len(line), line_num, r[2],
                                  IF Len(r[2]) = 0 THEN Append(r[3], nl) ELSE r[3],
                                  line, "run", NoErr)
    /\ UNCHANGED <<compilerVars, call>>

NextLex == LexStart \/ LexEof \/ LexSkipLine \/ LexLine

SpecLex == InitLex /\ [][NextLex]_vars

----------------------------------------------------------------------------
(* wes/parser.py: NAME_RE, VAL_RE and the token branch of parse_atom, with  *)
(* wes/utils.py: str_to_int; a token text is a sequence of characters       *)

DecDigits == {"0", "1", "2", "3", "4", "5", "6", "7", "8", "9"}
OctDigits == {"0", "1", "2", "3", "4", "5", "6", "7"}
BinDigits == {"0", "1"}
HexLetters == {"a", "b", "c", "d", "e", "f", "A", "B", "C", "D", "E", "F"}
Letters ==
    {"a", "b", "c", "d", "e", "f", "g", "h", "i", "j", "k", "l", "m", "n", "o",
     "p", "q", "r", "s", "t", "u", "v", "w", "x", "y", "z",
     "A", "B", "C", "D", "E", "F", "G", "H", "I", "J", "K", "L", "M", "N", "O",
     "P", "Q", "R", "S", "T", "U", "V", "W", "X", "Y", "Z"}

AllIn(s, from, chars) == \A i \in from..Len(s) : s[i] \in chars

HasPrefix(s, c) == Len(s) >= 3 /\ s[1] = "0" /\ s[2] = c

\* NAME_RE.match(s)
NAME_RE(s) ==
    /\ Len(s) >= 1
    /\ s[1] \in Letters \cup {"_"}
    /\ AllIn(s, 2, Letters \cup DecDigits \cup {"_"})

\* VAL_RE.match(s)
VAL_RE(s) ==
    \/ HasPrefix(s, "b") /\ AllIn(s, 3, BinDigits \cup {"_"})
    \/ HasPrefix(s, "o") /\ AllIn(s, 3, OctDigits \cup {"_"})
    \/ Len(s) >= 1 /\ AllIn(s, 1, DecDigits \cup {"_"})
    \/ HasPrefix(s, "x") /\ AllIn(s, 3, HexLetters \cup DecDigits \cup {"_"})

BASES == (<<"0", "b">> :> 2) @@ (<<"0", "o">> :> 8) @@ (<<"0", "x">> :> 16)

\* the value of a digit character
DigitValue(c) ==
    CASE c \in {"a", "A"} -> 10 [] c \in {"b", "B"} -> 11 [] c \in {"c", "C"} -> 12
      [] c \in {"d", "D"} -> 13 [] c \in {"e", "E"} -> 14 [] c \in {"f", "F"} -> 15
      [] c = "0" -> 0 [] c = "1" -> 1 [] c = "2" -> 2 [] c = "3" -> 3 [] c = "4" -> 4
      [] c = "5" -> 5 [] c = "6" -> 6 [] c = "7" -> 7 [] c = "8" -> 8 [] c = "9" -> 9
      [] OTHER -> 36

IsDigitOf(c, base) == DigitValue(c) < base

\* the digits of s from position i on, most significant first, read in base
\* onto the value acc; underscores are passed over
RECURSIVE digits_value(_, _, _, _)
digits_value(s, i, base, acc) ==
    IF i > Len(s) THEN acc
    ELSE IF s[i] = "_" THEN digits_value(s, i + 1, base, acc)
    ELSE digits_value(s, i + 1, base, acc * base + DigitValue(s[i]))

\* Python's int(s, base=base) for base 2, 8, 10 or 16 and a text without sign
\* or whitespace: a base prefix and one underscore after it are passed over;
\* what follows must be digits of the base separated by single underscores
int(s, base) ==
    LET prefixed == base # 10 /\ Len(s) >= 2 /\ <<s[1], s[2]>> \in DOMAIN BASES
                    /\ BASES[<<s[1], s[2]>>] = base
        from == IF ~prefixed THEN 1
                ELSE IF Len(s) >= 3 /\ s[3] = "_" THEN 4
                ELSE 3
    IN IF /\ from <= Len(s)
          /\ \A i \in from..Len(s) : s[i] = "_" \/ IsDigitOf(s[i], base)
          /\ s[from] # "_"
          /\ s[Len(s)] # "_"
          /\ \A i \in from..(Len(s) - 1) : ~(s[i] = "_" /\ s[i + 1] = "_")
       THEN Ok(digits_value(s, from, base, 0))
       ELSE Raise("ValueError", "invalid literal for int()", s)

\* str_to_int
str_to_int(s) ==
    LET prefix == SubSeq(s, 1, IF Len(s) < 2 THEN Len(s) ELSE 2)
    IN int(s, IF prefix \in DOMAIN BASES THEN BASES[prefix] ELSE 10)

\* a parser method returns <<"ok", node, end>>, returns None after a Reset
\* with the cursor back at pos, <<"None", pos>>, or raises
Parsed(node, end) == <<"ok", node, end>>
Reset(pos) == <<"None", pos>>

\* parse_atom on a token that is not '(': the Val or Name of the Text token at
\* pos
atom_of_token(text, pos) ==
    IF VAL_RE(text)
    THEN LET v == str_to_int(text)
         IN IF IsOk(v) THEN Parsed(Val(v[2]), pos + 1) ELSE v
    ELSE IF NAME_RE(text) THEN Parsed(Name(text), pos + 1)
    ELSE Reset(pos)

\* parse_atom on one token, for every text up to MaxTok characters
TokAlphabet == {"0", "1", "8", "_", "b", "o", "x", "f", "G"}

TokTexts == UNION {[1..n -> TokAlphabet] : n \in 1..MaxTok}

InitAtom == Idle /\ call \in {<<"parse_atom", s>> : s \in TokTexts} /\ ret = NoCall

CallParseAtom ==
    /\ Pending("parse_atom")
    /\ ret' = atom_of_token(call[2], 1)
    /\ UNCHANGED <<compilerVars, call>>

NextAtom == CallParseAtom

SpecAtom == InitAtom /\ [][NextAtom]_vars

----------------------------------------------------------------------------
(* wes/parser.py: the expression parsers over the tokens of one line;       *)
(* pos is the 1-based index of the next token, a Name holds the characters  *)
(* of its token.  A value a method assigns to a local name is bound once,   *)
(* as the parameter of the step that follows the assignment (after_...).   *)

\* the tokens the lexer yields for a text of one line without delimiters
\* left open
LineTokens(text) ==
    LET r == lex_parts(tokenize(text), 1, 0, 0, 1, <<>>, <<>>)
    IN r[3] \o <<NewlineTok(0, 1, Len(text)), EofTok(0, 1, Len(text))>>

IsText(tok) == tok[1] = "Text"

\* the characters of an operator
OpChars(op) ==
    CASE op = "**" -> <<"*", "*">>
      [] op = "<<" -> <<"<", "<">>
      [] op = ">>" -> <<">", ">">>
      [] OTHER -> <<op>>

\* expect(*ops) succeeds on tok
IsOneOf(tok, ops) == IsText(tok) /\ \E o \in ops : OpChars(o) = tok[2]

OpOf(tok, ops) == CHOOSE o \in ops : OpChars(o) = tok[2]

Stop(msg, tok) == Raise("Stop", msg, <<tok>>)

\* the operators of the parsers, had parse_term been made with the operators
\* of parse_sum and parse_sum with those of parse_term
LevelOps_SumBelowTerm ==
    << {"|"}, {"^"}, {"&"}, {"<<", ">>"}, {"*", "/", "%"}, {"+", "-"} >>

\* the operators of the parsers made by make_expr_parser, from parse_expr (1)
\* to parse_term (6)
LevelOps == << {"|"}, {"^"}, {"&"}, {"<<", ">>"}, {"+", "-"}, {"*", "/", "%"} >>

RECURSIVE parse_atom(_, _)
RECURSIVE parse_power(_, _)
RECURSIVE parse_factor(_, _)
RECURSIVE grow_seed(_, _, _, _)
RECURSIVE parse_level(_, _, _)

\* the parser made by make_expr_parser for level L, and its rhs
rhs(L, toks, pos) ==
    IF L = 6 THEN parse_factor(toks, pos) ELSE parse_level(L + 1, toks, pos)

\* the loop of cache_left_rec once the cache holds the result x that ends at
\* end: the next run of the parser takes x from the cache, expects one of
\* its operators and parses the rhs; when it grows no longer, x is the result
grow_seed(L, toks, x, end) ==
    LET after_rhs(y) ==
            IF y[1] = "raise" THEN y
            ELSE IF y[1] = "None"
            THEN Stop("expected expression after operator", toks[end])
            ELSE grow_seed(L, toks, BinExpr(x, OpOf(toks[end], LevelOps[L]), y[2]), y[3])
    IN IF IsOneOf(toks[end], LevelOps[L]) THEN after_rhs(rhs(L, toks, end + 1))
       ELSE Parsed(x, end)

parse_level(L, toks, pos) ==
    LET after_rhs(x) == IF x[1] # "ok" THEN x ELSE grow_seed(L, toks, x[2], x[3])
    IN after_rhs(rhs(L, toks, pos))

parse_expr(toks, pos) == parse_level(1, toks, pos)
parse_xor(toks, pos) == parse_level(2, toks, pos)
parse_and(toks, pos) == parse_level(3, toks, pos)
parse_shift(toks, pos) == parse_level(4, toks, pos)
parse_sum(toks, pos) == parse_level(5, toks, pos)
parse_term(toks, pos) == parse_level(6, toks, pos)

parse_atom(toks, pos) ==
    LET after_expr(tok, expr) ==
            IF expr[1] = "raise" THEN expr
            ELSE IF expr[1] = "None" THEN Stop("expected expression after", tok)
            ELSE IF ~IsText(toks[expr[3]])
            THEN Stop("unexpected end of line", toks[expr[3]])
            ELSE IF ~IsOneOf(toks[expr[3]], {")"})
            THEN Stop("expected ')'", toks[expr[3]])
            ELSE Parsed(expr[2], expr[3] + 1)
        after_tok(tok) ==
            IF IsOneOf(tok, {"("}) THEN after_expr(tok, parse_expr(toks, pos + 1))
            ELSE IF ~IsText(tok) THEN Reset(pos)
            ELSE atom_of_token(tok[2], pos)
    IN after_tok(toks[pos])

parse_power(toks, pos) ==
    LET after_factor(x, y) ==
            IF y[1] = "raise" THEN y
            ELSE IF y[1] = "None"
            THEN Stop("expected expression after operator", toks[x[3]])
            ELSE Parsed(BinExpr(x[2], "**", y[2]), y[3])
        after_atom(x) ==
            IF x[1] # "ok" THEN x
            ELSE IF IsOneOf(toks[x[3]], {"**"})
            THEN after_factor(x, parse_factor(toks, x[3] + 1))
            ELSE x
    IN after_atom(parse_atom(toks, pos))

parse_factor(toks, pos) ==
    LET after_factor(x) ==
            IF x[1] = "raise" THEN x
            ELSE IF x[1] = "None"
            THEN Stop("expected expression after operator", toks[pos])
            ELSE Parsed(<<"UnExpr", OpOf(toks[pos], UN_OPS), x[2]>>, x[3])
    IN IF IsOneOf(toks[pos], UN_OPS) THEN after_factor(parse_factor(toks, pos + 1))
       ELSE parse_power(toks, pos)

\* Well-formed expressions: the trees with n operators, their leaves the
\* literals 0 and 1 in turn from left to right, and their source text,
\* written with parentheses only around an operand that binds less tightly
\* than its position requires
RECURSIVE Trees(_)
Trees(n) ==
    IF n = 0 THEN {Val(0)}
    ELSE {<<"UnExpr", op, x>> : op \in UN_OPS, x \in Trees(n - 1)}
         \cup UNION {{BinExpr(x, op, y) : x \in Trees(k), op \in BIN_OPS, y \in Trees(n - 1 - k)} :
                        k \in 0..(n - 1)}

\* <<e with its leaves numbered k, k + 1, ... modulo 2, the next number>>
RECURSIVE Numbered(_, _)
Numbered(e, k) ==
    CASE e[1] = "UnExpr" ->
            LET x == Numbered(e[3], k) IN << <<"UnExpr", e[2], x[1]>>, x[2] >>
      [] e[1] = "BinExpr" ->
            LET x == Numbered(e[2], k)
                y == Numbered(e[4], x[2])
            IN <<BinExpr(x[1], e[3], y[1]), y[2]>>
      [] OTHER -> <<Val(k % 2), k + 1>>

\* the binding strength of an expression, from the loosest operator to the
\* atoms: | ^ & {<<,>>} {+,-} {*,/,%} unary ** atom
Binding(e) ==
    CASE e[1] = "UnExpr" -> 7
      [] e[1] = "BinExpr" ->
            (CASE e[3] = "|" -> 1
               [] e[3] = "^" -> 2
               [] e[3] = "&" -> 3
               [] e[3] \in {"<<", ">>"} -> 4
               [] e[3] \in {"+", "-"} -> 5
               [] e[3] \in {"*", "/", "%"} -> 6
               [] e[3] = "**" -> 8)
      [] OTHER -> 9

RECURSIVE Unparse(_, _)
Unparse(e, min) ==
    LET text ==
            CASE e[1] = "Val" -> IF e[2] = 0 THEN <<"0">> ELSE <<"1">>
              [] e[1] = "UnExpr" -> <<e[2], " ">> \o Unparse(e[3], 7)
              [] e[1] = "BinExpr" ->
                    IF e[3] = "**"
                    THEN Unparse(e[2], 9) \o <<" ">> \o OpChars(e[3]) \o <<" ">>
                         \o Unparse(e[4], 8)
                    ELSE Unparse(e[2], Binding(e)) \o <<" ">> \o OpChars(e[3]) \o <<" ">>
                         \o Unparse(e[4], Binding(e) + 1)
    IN IF Binding(e) < min THEN <<"(", " ">> \o text \o <<" ", ")">> ELSE text

ExprCalls ==
    {<<"parse_expr", Unparse(Numbered(e, 0)[1], 1), Numbered(e, 0)[1]>> :
        e \in UNION {Trees(n) : n \in 0..MaxOps}}

InitExpr == Idle /\ call \in ExprCalls /\ ret = NoCall

\* Parser.from_str(text).parse_expr()
CallParseExpr ==
    /\ Pending("parse_expr")
    /\ ret' = parse_expr(LineTokens(call[2]), 1)
    /\ UNCHANGED <<compilerVars, call>>

NextExpr == CallParseExpr

SpecExpr == InitExpr /\ [][NextExpr]_vars

----------------------------------------------------------------------------
(* unify, one iteration of its while loop at a time.  ret holds the deque   *)
(* and the miss counter, <<"loop", equations, rule_misses>>, until unify    *)
(* returns dict(equations) or raises.                                       *)

Looping(equations, rule_misses) == <<"loop", equations, rule_misses>>

\* the eliminate branch without its check rule
eliminate_NoCheck(x, y, rest, rule_misses) ==
    IF x[3] # "None" /\ ~predicate_holds(x[3], y)
    THEN Raise("PatternError", "did not satisfy predicate", "")
    ELSE IF occurs_check_eqs(x, rest)
    THEN Looping(Append(apply_sub_eqs(x, y, rest), <<x, y>>), 0)
    ELSE Looping(Append(rest, <<x, y>>), rule_misses + 1)

\* the branch of the loop body taken when x is a Var
eliminate(x, y, rest, rule_misses) ==
    IF occurs_check(x, y)
    THEN Raise("PatternError", "recursive self reference", "")
    ELSE IF x[3] # "None" /\ ~predicate_holds(x[3], y)
    THEN Raise("PatternError", "did not satisfy predicate", "")
    ELSE IF occurs_check_eqs(x, rest)
    THEN Looping(Append(apply_sub_eqs(x, y, rest), <<x, y>>), 0)
    ELSE Looping(Append(rest, <<x, y>>), rule_misses + 1)

\* the loop body with a swap rule that queues the equation as it was
unify_step_NoSwap(equations, rule_misses) ==
    LET x == Head(equations)[1]
        y == Head(equations)[2]
        rest == Tail(equations)
    IN  IF x = y THEN Looping(rest, 0)
        ELSE IF IsPattern(x) /\ IsPattern(y)
        THEN IF x[1] # y[1]
             THEN Raise("PatternError", "type mismatch", "")
             ELSE Looping(rest \o zip_params(x, y), 0)
        ELSE IF ~IsVar(x) /\ ~IsVar(y)
        THEN Raise("PatternError", "concrete mismatch", "")
        ELSE IF ~IsVar(x) /\ IsVar(y)
        THEN Looping(Append(rest, <<x, y>>), 0)
        ELSE IF IsVar(x)
        THEN eliminate(x, y, rest, rule_misses)
        ELSE Raise("Exception", "invariant", "")

\* the body of the while loop of unify: popleft, then the rule that applies
unify_step(equations, rule_misses) ==
    LET x == Head(equations)[1]
        y == Head(equations)[2]
        rest == Tail(equations)
    IN  IF x = y THEN Looping(rest, 0)
        ELSE IF IsPattern(x) /\ IsPattern(y)
        THEN IF x[1] # y[1]
             THEN Raise("PatternError", "type mismatch", "")
             ELSE Looping(rest \o zip_params(x, y), 0)
        ELSE IF ~IsVar(x) /\ ~IsVar(y)
        THEN Raise("PatternError", "concrete mismatch", "")
        ELSE IF ~IsVar(x) /\ IsVar(y)
        THEN Looping(Append(rest, <<y, x>>), 0)
        ELSE IF IsVar(x)
        THEN eliminate(x, y, rest, rule_misses)
        ELSE Raise("Exception", "invariant", "")

\* the terms of tests/test_pattern.py: String(), Integer(), the static
\* value 3, T, U, V with the predicate string_or_integer, W with never_match
UnifyAtoms ==
    { <<"String">>, <<"Integer">>, <<"int", 3>>, T, Var("U"),
      <<"Var", "V", "string_or_integer">>, <<"Var", "W", "never_match">> }

\* List[...] and Map[..., ...] over the atoms, by number of nodes
RECURSIVE TermsOfSize(_)
TermsOfSize(k) ==
    IF k = 1 THEN UnifyAtoms
    ELSE {<<"List", t>> : t \in TermsOfSize(k - 1)}
         \cup UNION {{<<"Map", a, b>> : a \in TermsOfSize(i),
                                       b \in TermsOfSize(k - 1 - i)} :
                     i \in 1..(k - 2)}

UnifyTerms == UNION {TermsOfSize(k) : k \in 1..MaxNodes}

UnifyCalls == {<<"unify", x, y>> : x \in UnifyTerms, y \in UnifyTerms}

InitUnify == Idle /\ call \in UnifyCalls /\ ret = NoCall

\* equations = deque([(lhs, rhs)]); rule_misses = 0
UnifyEnter ==
    /\ Pending("unify")
    /\ ret' = Looping(<< <<call[2], call[3]>> >>, 0)
    /\ UNCHANGED <<compilerVars, call>>

\* one iteration of the while loop
UnifyIterate ==
    /\ call[1] = "unify" /\ ret[1] = "loop"
    /\ Len(ret[2]) > ret[3]
    /\ ret' = unify_step(ret[2], ret[3])
    /\ UNCHANGED <<compilerVars, call>>

\* the loop condition is false: return dict(equations)
UnifyReturn ==
    /\ call[1] = "unify" /\ ret[1] = "loop"
    /\ ~(Len(ret[2]) > ret[3])
    /\ ret' = Ok(dict(ret[2]))
    /\ UNCHANGED <<compilerVars, call>>

NextUnify == UnifyEnter \/ UnifyIterate \/ UnifyReturn

SpecUnify == InitUnify /\ [][NextUnify]_vars

\* the loop is not suspended between iterations
SpecUnifyFair == SpecUnify /\ WF_vars(NextUnify)

----------------------------------------------------------------------------
(* cache_left_rec around a parser made by make_expr_parser, one run of the  *)
(* wrapped method at a time.  ret holds the cache entry of the call and the  *)
(* number of runs made, <<"loop", last_res, last_pos, runs>>, until the     *)
(* wrapper returns or a Stop passes through it.                             *)

\* one run of the function `parser` of make_expr_parser at pos while the
\* cache holds (last_res, last_pos) for it: the recursive call is answered
\* from the cache; a missing seed or operator leads to the plain rhs at pos
parser_body(L, toks, pos, last_res, last_pos) ==
    LET after_rhs(y) ==
            IF y[1] = "raise" THEN y
            ELSE IF y[1] = "None"
            THEN Stop("expected expression after operator", toks[last_pos])
            ELSE Parsed(BinExpr(last_res, OpOf(toks[last_pos], LevelOps[L]), y[2]),
                        y[3])
    IN IF last_res # None /\ IsOneOf(toks[last_pos], LevelOps[L])
       THEN after_rhs(rhs(L, toks, last_pos + 1))
       ELSE rhs(L, toks, pos)

\* the cursor after a run of the method
EndOf(res) == IF res[1] = "ok" THEN res[3] ELSE res[2]

\* the loop of cache_left_rec leaving only when a run ends before last_pos
left_rec_step_BreakLess(L, toks, pos, last_res, last_pos, runs) ==
    LET after_run(res) ==
            IF res[1] = "raise" THEN res
            ELSE IF EndOf(res) < last_pos
            THEN (IF last_res = None THEN Reset(last_pos)
                  ELSE Parsed(last_res, last_pos))
            ELSE <<"loop", IF res[1] = "ok" THEN res[2] ELSE None, EndOf(res),
                   runs + 1>>
    IN after_run(parser_body(L, toks, pos, last_res, last_pos))

\* one iteration of the loop of cache_left_rec: reset(pos), run the method,
\* then either break and return last_res with the cursor at last_pos, or
\* store the longer result in the cache
left_rec_step(L, toks, pos, last_res, last_pos, runs) ==
    LET after_run(res) ==
            IF res[1] = "raise" THEN res
            ELSE IF EndOf(res) <= last_pos
            THEN (IF last_res = None THEN Reset(last_pos)
                  ELSE Parsed(last_res, last_pos))
            ELSE <<"loop", IF res[1] = "ok" THEN res[2] ELSE None, EndOf(res),
                   runs + 1>>
    IN after_run(parser_body(L, toks, pos, last_res, last_pos))

LineAlphabet == {"1", "+", "*"}

Lines == UNION {[1..n -> LineAlphabet] : n \in 1..MaxLine}

\* parse_sum (5) or parse_term (6), the parsers of make_expr_parser whose
\* operators are in the alphabet, called with the cursor at any token of a
\* line but its Eof
LeftRecCalls ==
    UNION {{<<"cache_left_rec", L, LineTokens(text), pos>> :
                L \in {5, 6}, pos \in 1..(Len(LineTokens(text)) - 1)} :
           text \in Lines}

InitLeftRec == Idle /\ call \in LeftRecCalls /\ ret = NoCall

\* a cache miss: prime the cache with the failure result
LeftRecEnter ==
    /\ Pending("cache_left_rec")
    /\ ret' = <<"loop", None, call[4], 0>>
    /\ UNCHANGED <<compilerVars, call>>

\* one iteration of the while loop
LeftRecIterate ==
    /\ call[1] = "cache_left_rec" /\ ret[1] = "loop"
    /\ ret' = left_rec_step(call[2], call[3], call[4], ret[2], ret[3], ret[4])
    /\ UNCHANGED <<compilerVars, call>>

NextLeftRec == LeftRecEnter \/ LeftRecIterate

SpecLeftRec == InitLeftRec /\ [][NextLeftRec]_vars

----------------------------------------------------------------------------
(* wes/parser.py: the statements.  A method under @optional is written as   *)
(* the undecorated method, which may end in a raised Reset; optional is     *)
(* applied where the method is called.  The names held by Const, Label and  *)
(* Op are token texts.                                                      *)

\* TokenStream.get at the cursor pos, then the checks of Parser.expect
expect(toks, pos, alts, error) ==
    IF pos > Len(toks) THEN Raise("EndOfTokens", "end of tokens", <<>>)
    ELSE IF ~IsText(toks[pos]) THEN Raise(error, "unexpected end of line", <<toks[pos]>>)
    ELSE IF alts # {} /\ ~IsOneOf(toks[pos], alts)
    THEN Raise(error, "expected", <<toks[pos]>>)
    ELSE Parsed(toks[pos], pos + 1)

\* Parser.expect_newline
expect_newline(toks, pos, error) ==
    IF pos > Len(toks) THEN Raise("EndOfTokens", "end of tokens", <<>>)
    ELSE IF toks[pos][1] # "Newline"
    THEN Raise(error, "expected end of line", <<toks[pos]>>)
    ELSE Parsed(toks[pos], pos + 1)

IsRaised(res, kind) == res[1] = "raise" /\ res[2] = kind

\* optional, had its context manager caught every exception
optional_CatchAll(res, pos) ==
    IF res[1] = "raise" THEN Reset(pos) ELSE res

\* optional around a method that was entered at pos and ended as res: a
\* raised Reset is caught by Parser.reset, which rewinds the cursor, and
\* None is returned; anything else passes
optional(res, pos) ==
    IF IsRaised(res, "Reset") THEN Reset(pos) ELSE res

\* the cursor after `with self.reset(): self.expect_newline()`
trailing_newline(toks, pos) ==
    LET nl == optional(expect_newline(toks, pos, "Reset"), pos)
    IN EndOf(nl)

parse_deref(toks, pos) ==
    LET after_r_bracket(expr, r_bracket) ==
            IF r_bracket[1] # "ok" THEN r_bracket
            ELSE Parsed(expr[2], r_bracket[3])
        after_expr(l_bracket, expr) ==
            IF expr[1] = "raise" THEN expr
            ELSE IF expr[1] = "None"
            THEN Stop("expected expression after", l_bracket[2])
            ELSE after_r_bracket(expr, expect(toks, expr[3], {"]"}, "Stop"))
        after_l_bracket(l_bracket) ==
            IF l_bracket[1] # "ok" THEN l_bracket
            ELSE after_expr(l_bracket, parse_expr(toks, l_bracket[3]))
    IN after_l_bracket(expect(toks, pos, {"["}, "Reset"))

parse_arg(toks, pos) ==
    LET after_deref(deref) ==
            IF deref[1] # "None" THEN deref ELSE parse_expr(toks, deref[2])
    IN after_deref(optional(parse_deref(toks, pos), pos))

parse_const(toks, pos) ==
    LET after_newline(name, val, nl) ==
            IF nl[1] # "ok" THEN nl
            ELSE Parsed(<<"Const", name[2][2], val[2]>>, nl[3])
        after_val(name, eq, val) ==
            IF val[1] = "raise" THEN val
            ELSE IF val[1] = "None" THEN Stop("expected expression after", eq[2])
            ELSE after_newline(name, val, expect_newline(toks, val[3], "Reset"))
        after_eq(name, eq) ==
            IF eq[1] # "ok" THEN eq
            ELSE IF ~NAME_RE(name[2][2]) THEN Stop("is not a valid name", name[2])
            ELSE after_val(name, eq, parse_expr(toks, eq[3]))
        after_name(name) ==
            IF name[1] # "ok" THEN name
            ELSE after_eq(name, expect(toks, name[3], {"="}, "Reset"))
    IN after_name(expect(toks, pos, {}, "Reset"))

parse_relative(toks, pos) ==
    LET relative == expect(toks, pos, {"+", "-"}, "Reset")
    IN IF relative[1] # "ok" THEN relative
       ELSE LET val == expect(toks, relative[3], {}, "Reset")
            IN IF val[1] # "ok" THEN val
               ELSE LET colon == expect(toks, val[3], {":"}, "Reset")
                    IN IF colon[1] # "ok" THEN colon
                       ELSE IF ~VAL_RE(val[2][2])
                       THEN Stop("is not a valid offset", val[2])
                       ELSE LET n == str_to_int(val[2][2])
                            IN IF ~IsOk(n) THEN n
                               ELSE Parsed(<<"Offset", n[2], OpOf(relative[2], {"+", "-"})>>,
                                           trailing_newline(toks, colon[3]))

parse_absolute(toks, pos) ==
    LET val == expect(toks, pos, {}, "Reset")
    IN IF val[1] # "ok" THEN val
       ELSE LET colon == expect(toks, val[3], {":"}, "Reset")
            IN IF colon[1] # "ok" THEN colon
               ELSE IF ~VAL_RE(val[2][2])
               THEN Raise("Reset", "is not a valid offset", <<val[2]>>)
               ELSE LET n == str_to_int(val[2][2])
                    IN IF ~IsOk(n) THEN n
                       ELSE Parsed(<<"Offset", n[2], "none">>,
                                   trailing_newline(toks, colon[3]))

parse_label(toks, pos) ==
    LET name == expect(toks, pos, {}, "Reset")
    IN IF name[1] # "ok" THEN name
       ELSE LET colon == expect(toks, name[3], {":"}, "Reset")
            IN IF colon[1] # "ok" THEN colon
               ELSE IF ~NAME_RE(name[2][2])
               THEN Stop("is not a valid name or offset", name[2])
               ELSE Parsed(<<"Label", name[2][2]>>, trailing_newline(toks, colon[3]))

\* parse_expr, then expect_newline; the expression is returned as it is,
\* None included
parse_nullary(toks, pos) ==
    LET after_newline(expr, nl) ==
            IF nl[1] # "ok" THEN nl
            ELSE IF expr[1] = "ok" THEN Parsed(expr[2], nl[3])
            ELSE <<"None", nl[3]>>
        after_expr(expr) ==
            IF expr[1] = "raise" THEN expr
            ELSE after_newline(expr, expect_newline(toks, EndOf(expr), "Reset"))
    IN after_expr(parse_expr(toks, pos))

parse_unary(toks, pos) ==
    LET after_newline(mnemonic, arg, nl) ==
            IF nl[1] # "ok" THEN nl
            ELSE Parsed(<<"Op", mnemonic[2][2], <<arg[2]>>>>, nl[3])
        after_arg(mnemonic, arg) ==
            IF arg[1] = "raise" THEN arg
            ELSE IF arg[1] = "None"
            THEN Raise("Reset", "expected expression after mnemonic", <<mnemonic[2]>>)
            ELSE after_newline(mnemonic, arg, expect_newline(toks, arg[3], "Reset"))
        after_mnemonic(mnemonic) ==
            IF mnemonic[1] # "ok" THEN mnemonic
            ELSE IF ~NAME_RE(mnemonic[2][2])
            THEN Raise("Reset", "is not a valid name or expression", <<mnemonic[2]>>)
            ELSE after_arg(mnemonic, parse_arg(toks, mnemonic[3]))
    IN after_mnemonic(expect(toks, pos, {}, "Reset"))

parse_binary(toks, pos) ==
    LET after_newline(mnemonic, arg1, arg2, nl) ==
            IF nl[1] # "ok" THEN nl
            ELSE Parsed(<<"Op", mnemonic[2][2], <<arg1[2], arg2[2]>>>>, nl[3])
        after_arg2(mnemonic, arg1, comma, arg2) ==
            IF arg2[1] = "raise" THEN arg2
            ELSE IF arg2[1] = "None" THEN Stop("expected expression after", comma[2])
            ELSE after_newline(mnemonic, arg1, arg2,
                               expect_newline(toks, arg2[3], "Stop"))
        after_comma(mnemonic, arg1, comma) ==
            IF comma[1] # "ok" THEN comma
            ELSE after_arg2(mnemonic, arg1, comma, parse_arg(toks, comma[3]))
        after_arg1(mnemonic, arg1) ==
            IF arg1[1] = "raise" THEN arg1
            ELSE IF arg1[1] = "None"
            THEN Raise("Reset", "expected expression after mnemonic", <<mnemonic[2]>>)
            ELSE after_comma(mnemonic, arg1, expect(toks, arg1[3], {","}, "Stop"))
        after_mnemonic(mnemonic) ==
            IF mnemonic[1] # "ok" THEN mnemonic
            ELSE IF ~NAME_RE(mnemonic[2][2])
            THEN Raise("Reset", "is not a valid name or expression", <<mnemonic[2]>>)
            ELSE after_arg1(mnemonic, parse_arg(toks, mnemonic[3]))
    IN after_mnemonic(expect(toks, pos, {}, "Reset"))

\* the optional methods parse_stmt tries, in the order it tries them through
\* parse_offset and parse_inst
STMT_ORDER ==
    <<"parse_const", "parse_relative", "parse_absolute", "parse_label",
      "parse_nullary", "parse_unary", "parse_binary">>

method(name, toks, pos) ==
    CASE name = "parse_const" -> parse_const(toks, pos)
      [] name = "parse_relative" -> parse_relative(toks, pos)
      [] name = "parse_absolute" -> parse_absolute(toks, pos)
      [] name = "parse_label" -> parse_label(toks, pos)
      [] name = "parse_nullary" -> parse_nullary(toks, pos)
      [] name = "parse_unary" -> parse_unary(toks, pos)
      [] name = "parse_binary" -> parse_binary(toks, pos)

\* parse_stmt from its k-th method on: the first result that is not None,
\* each method starting where the one before left the cursor
RECURSIVE parse_stmt_from(_, _, _)
parse_stmt_from(k, toks, pos) ==
    LET after_method(res) ==
            IF res[1] # "None" \/ k = Len(STMT_ORDER) THEN res
            ELSE parse_stmt_from(k + 1, toks, res[2])
    IN after_method(optional(method(STMT_ORDER[k], toks, pos), pos))

parse_stmt(toks, pos) == parse_stmt_from(1, toks, pos)

\* Parser.from_str(text).parse_stmt() for an identifier followed by the text
\* of a well-formed expression
StmtCalls ==
    {<<"parse_stmt", <<"a", " ">> \o c[2], c[3]>> : c \in ExprCalls}

InitStmt == Idle /\ call \in StmtCalls /\ ret = NoCall

CallParseStmt ==
    /\ Pending("parse_stmt")
    /\ ret' = parse_stmt(LineTokens(call[2]), 1)
    /\ UNCHANGED <<compilerVars, call>>

NextStmt == CallParseStmt

SpecStmt == InitStmt /\ [][NextStmt]_vars

\* parse_file, one optional method of parse_stmt at a time.  ret holds
\* <<"file", stmts, cursor, k, last_reset>>: the statements parsed, the
\* cursor, the place in STMT_ORDER of the method tried next (one past the
\* last when parse_stmt has returned None) and the Reset caught last around
\* such a method.
Words == {"a", "1", "-", ":", "=", ",", "[", "]"}

RECURSIVE Joined(_)
Joined(ws) ==
    IF Len(ws) = 1 THEN <<ws[1]>> ELSE <<ws[1], " ">> \o Joined(Tail(ws))

\* the lines of up to MaxWords words the lexer accepts and ends by a Newline
WordLines ==
    {text \in {Joined(ws) : ws \in UNION {[1..n -> Words] : n \in 1..MaxWords}} :
        LET r == lex_parts(tokenize(text), 1, 0, 0, 1, <<>>, <<>>)
        IN IsOk(r[1]) /\ r[2] = <<>>}

InitFile ==
    Idle /\ call \in {<<"parse_file", LineTokens(text)>> : text \in WordLines}
         /\ ret = NoCall

FileLoop == call[1] = "parse_file" /\ ret[1] = "file"

FileEnter ==
    /\ Pending("parse_file")
    /\ ret' = <<"file", <<>>, 1, 1, None>>
    /\ UNCHANGED <<compilerVars, call>>

\* parse_stmt tries its next method
TryMethod ==
    /\ FileLoop /\ ret[4] <= Len(STMT_ORDER)
    /\ LET after_optional(res, opt) ==
               CASE opt[1] = "ok" ->
                      <<"file", Append(ret[2], opt[2]), opt[3], 1, ret[5]>>
                 [] opt[1] = "None" ->
                      <<"file", ret[2], opt[2], ret[4] + 1,
                        IF IsRaised(res, "Reset") THEN res ELSE ret[5]>>
                 [] OTHER -> opt
           after_method(res) == after_optional(res, optional(res, ret[3]))
       IN ret' = after_method(method(STMT_ORDER[ret[4]], call[2], ret[3]))
    /\ UNCHANGED <<compilerVars, call>>

\* parse_stmt has returned None: the loop ends, the next token must be Eof
FileEnd ==
    /\ FileLoop /\ ret[4] > Len(STMT_ORDER)
    /\ ret' = IF ret[3] > Len(call[2])
              THEN Raise("EndOfTokens", "end of tokens", <<>>)
              ELSE IF call[2][ret[3]][1] = "Eof" THEN Ok(<<"File", ret[2]>>)
              ELSE IF ret[5] = None THEN Raise("Exception", "invariant", <<>>)
              ELSE Raise("Stop", ret[5][3], ret[5][4])
    /\ UNCHANGED <<compilerVars, call>>

NextFile == FileEnter \/ TryMethod \/ FileEnd

SpecFile == InitFile /\ [][NextFile]_vars

----------------------------------------------------------------------------
(* wes/lexer.py: TokenStream.  ret holds the stream,                        *)
(* <<"TokenStream", taken, hist, i, marks, last>>: the number of tokens the *)
(* lexer's iterator has yielded, the fields hist and i, the positions mark  *)
(* has returned, and what the last call did.                                *)

\* get, had it asked the lexer for a token whatever the cursor
get_NoReplay(source, taken, hist, i) ==
    IF taken = Len(source)
    THEN <<taken, hist, i, <<"raise", "EndOfTokens", i>>>>
    ELSE <<taken + 1, Append(hist, source[taken + 1]), i + 1,
           <<"get", source[taken + 1], i>>>>

\* TokenStream.get on the stream over the lexer output source:
\* <<taken, hist, i, what the call did>>
get(source, taken, hist, i) ==
    IF i < Len(hist)
    THEN <<taken, hist, i + 1, <<"get", hist[i + 1], i>>>>
    ELSE IF taken = Len(source)
    THEN <<taken, hist, i, <<"raise", "EndOfTokens", i>>>>
    ELSE <<taken + 1, Append(hist, source[taken + 1]), i + 1,
           <<"get", source[taken + 1], i>>>>

\* TokenStream.mark
mark(i) == i

\* TokenStream.reset: the new cursor
reset(i) == i

\* the lexer output of a line of 1 to MaxStream names
RECURSIVE NamesLine(_)
NamesLine(n) == IF n = 1 THEN <<"a">> ELSE <<"a", " ">> \o NamesLine(n - 1)

StreamCalls == {<<"TokenStream", LineTokens(NamesLine(n))>> : n \in 1..MaxStream}

InitStream == Idle /\ call \in StreamCalls /\ ret = NoCall

Streaming == call[1] = "TokenStream" /\ ret # NoCall

\* TokenStream(lexer)
StreamNew ==
    /\ Pending("TokenStream")
    /\ ret' = <<"TokenStream", 0, <<>>, 0, {}, <<"new">>>>
    /\ UNCHANGED <<compilerVars, call>>

StreamGet ==
    /\ Streaming
    /\ LET r == get(call[2], ret[2], ret[3], ret[4])
       IN ret' = <<"TokenStream", r[1], r[2], r[3], ret[5], r[4]>>
    /\ UNCHANGED <<compilerVars, call>>

StreamMark ==
    /\ Streaming
    /\ ret' = <<"TokenStream", ret[2], ret[3], ret[4], ret[5] \cup {mark(ret[4])},
                <<"mark", mark(ret[4])>>>>
    /\ UNCHANGED <<compilerVars, call>>

\* reset with a position that mark returned earlier
StreamReset ==
    /\ Streaming
    /\ \E p \in ret[5] :
          ret' = <<"TokenStream", ret[2], ret[3], reset(p), ret[5], <<"reset", p>>>>
    /\ UNCHANGED <<compilerVars, call>>

NextStream == StreamNew \/ StreamGet \/ StreamMark \/ StreamReset

SpecStream == InitStream /\ [][NextStream]_vars

----------------------------------------------------------------------------
(* The same Compiler iterated again: labels, consts and scope are the       *)
(* object's fields and stay as the run before left them.  ret keeps what    *)
(* the first run yielded and left in the fields.                            *)

\* list(compiler) once more, after an iteration that was exhausted
IterAgain ==
    /\ Running /\ phase = "done"
    /\ phase' = "init"
    /\ idx' = 0
    /\ loc' = 0
    /\ last_inst' = None
    /\ out' = <<>>
    /\ ret' = IF ret = NoCall THEN <<"first", out, labels, consts, scope>> ELSE ret
    /\ UNCHANGED <<target, stmts, labels, consts, scope, err, call>>

NextRepeat == Next \/ IterAgain

SpecRepeat == Init /\ [][NextRepeat]_vars

----------------------------------------------------------------------------
(* Properties *)

ScanSucceeded ==
    \/ Running /\ phase = "scan" /\ idx > Len(stmts)
    \/ phase \in {"iter", "done"}

NotBound == "name is not bound to any value"

NamesOf(kind) == {stmts[i][2] : i \in {j \in 1..Len(stmts) : stmts[j][1] = kind}}

\* C1: in pass 2, an Offset that follows an instruction of size s moves the
\* cursor from loc to loc' with (loc' - loc) mod s = 0, emits exactly
\* (loc' - loc) / s copies of that instruction's encoding, and the output then
\* reaches exactly up to address loc'.
C1_PaddingFillsToTarget ==
    [][(InLoop("iter") /\ Stmt[1] = "Offset" /\ err' = NoErr)
        => /\ (loc' - loc) % size(last_inst) = 0
           /\ \E bs \in {encode(target, last_inst, scope, labels)} :
                 out' = out \o repeat(bs[2], (loc' - loc) \div size(last_inst))
           /\ Len(out') = loc']_vars

\* C2: resolve_offset(loc, offset) computes loc' as offset (absolute),
\* loc + offset ('+') or max_addr - offset + 1 ('-'); it returns loc' exactly
\* when loc <= loc' <= max_addr and otherwise fails with a diagnostic: the
\* oversized one when loc' > max_addr, else the before-current-position one
\* (then loc' < loc).
C2_ResolveOffset ==
    Returned("resolve_offset") =>
        LET t == call[2]
            l == call[3]
            n == call[4][2]
            rel == call[4][3]
            tgt == CASE rel = "none" -> n
                     [] rel = "+" -> l + n
                     [] rel = "-" -> max_addr(t) - n + 1
        IN /\ IsOk(ret) <=> (l <= tgt /\ tgt <= max_addr(t))
           /\ IsOk(ret) => ret[2] = tgt
           /\ ~IsOk(ret) => ret[2] = "Message" /\ ret[4] = tgt
           /\ tgt > max_addr(t) => ret[3] = "offset resolves to oversized location"
           /\ (tgt < l /\ tgt <= max_addr(t))
                => ret[3] = "offset resolves to location before current position"

C2_Witness ==
    /\ Returned("resolve_offset")
    /\ call[4][3] = "-"
    /\ IsOk(ret)
    /\ ret[2] = max_addr(call[2]) - call[4][2] + 1
    /\ ret[2] > call[3]

\* C3: the size of every validated instruction equals the number of values its
\* encode yields, and a bare value statement has size 1 and yields one byte.
C3_SizeIsEncodedLength ==
    last_inst # None =>
        LET bs == encode(target, last_inst, scope, labels)
        IN /\ IsOk(bs) => size(last_inst) = Len(bs[2])
           /\ last_inst[1] = "Value"
                => size(last_inst) = 1 /\ bs[2][1] \in 0..255

\* C4: when pass 1 accepts a program its cursor ends at most at max_addr + 1,
\* so no generated byte lies at an address above max_addr.
C4_ProgramFits ==
    /\ (Running /\ phase = "scan" /\ idx > Len(stmts)) => loc <= max_addr(target) + 1
    /\ phase \in {"iter", "done"} => Len(out) <= max_addr(target) + 1

\* C5: on every target an instruction operand may name a label declared later
\* in the source: evaluating the operand of an Op statement never fails as
\* unbound for a name the source declares as a label.
C5_ForwardLabelsResolve ==
    (err[1] = "Message" /\ err[2] = NotBound /\ phase # "init" /\ Stmt[1] = "Op")
        => err[3] \notin NamesOf("Label")

\* C6: after pass 1, a name in an instruction operand evaluates to its value
\* whenever it is bound as a constant or as a label, for every instruction
\* kind; "not bound" is only reported for names bound in neither mapping.
C6_BoundNamesEvaluate ==
    (phase = "iter" /\ err[1] = "Message" /\ err[2] = NotBound)
        => err[3] \notin (DOMAIN consts \cup DOMAIN labels)

\* C7: scan does not succeed when a label or constant name is a mnemonic of
\* the target, a label or a constant is declared twice, or a label and a
\* constant share a name (in either order); each of these is reported by the
\* diagnostic of its check; after a successful scan the key sets of labels and
\* consts are disjoint and hold no mnemonic.
Mnemonics == DOMAIN instructions(target)

ReservedConst == NamesOf("Const") \cap Mnemonics # {}

TwiceDeclared(kind) ==
    \E i, j \in 1..Len(stmts) :
        i < j /\ stmts[i][1] = kind /\ stmts[j][1] = kind /\ stmts[i][2] = stmts[j][2]

BadNames ==
    \/ (NamesOf("Label") \cup NamesOf("Const")) \cap Mnemonics # {}
    \/ TwiceDeclared("Label")
    \/ TwiceDeclared("Const")
    \/ NamesOf("Label") \cap NamesOf("Const") # {}

C8_OnlyMessagesEscape ==
    err # NoErr => err[1] = "Message"

\* C9: Format.match(arg) returns exactly one (template, operand) pair: the
\* first template, in the order IDX_IND, IND, IND_Y, IDX_X, IDX_Y, DIR, IMM,
\* that the argument is an instance of, with the operand the sub-expression in
\* the place of T; it never falls through.
RECURSIVE SubTerms(_)
SubTerms(e) ==
    {e} \cup
    CASE e[1] = "UnExpr" -> SubTerms(e[3])
      [] e[1] = "BinExpr" -> SubTerms(e[2]) \cup SubTerms(e[4])
      [] e[1] = "Deref" -> SubTerms(e[2])
      [] OTHER -> {}

DeclaredOrder == <<"IDX_IND", "IND", "IND_Y", "IDX_X", "IDX_Y", "DIR", "IMM">>

InstanceOf(fmt, arg) == \E t \in SubTerms(arg) : arg = FormatTemplate(fmt, t)

C9_FirstMatchingFormat ==
    Returned("match") =>
        LET arg == call[2]
            first == CHOOSE i \in 1..7 :
                        /\ InstanceOf(DeclaredOrder[i], arg)
                        /\ \A j \in 1..(i - 1) : ~InstanceOf(DeclaredOrder[j], arg)
        IN /\ InstanceOf("IMM", arg)
           /\ IsOk(ret)
           /\ ret[2][1] = DeclaredOrder[first]
           /\ arg = FormatTemplate(ret[2][1], ret[2][2])

\* an argument that is an instance of a later template as well
C9_Witness ==
    /\ Returned("match")
    /\ IsOk(ret)
    /\ ret[2][1] = "IDX_X"
    /\ InstanceOf("DIR", call[2])
    /\ call[2] = Deref(BinExpr(ret[2][2], "+", Name("x")))

\* C10: a one-argument 6502 unary instruction whose operand evaluates to v
\* with byte length n fails with 'does not fit in two bytes' if n > 2, fails
\* with a diagnostic naming the addressing mode and n if (mode, n) is not in
\* the opcode table, and otherwise has size n + 1 and encodes as the table's
\* opcode followed by the n bytes of v, least significant first.
C10_WdcUnary ==
    (Returned("WdcUnary") /\ IsOk(eval(call[4], OperandScope))) =>
        LET m == call[2]
            mode == call[3]
            v == eval(call[4], OperandScope)[2]
            n == byte_length(v)
        IN IF n > 2
           THEN ret = Message("evaluated result does not fit in two bytes", v)
           ELSE IF <<mode, n>> \notin DOMAIN WdcCodes[m]
           THEN ret = Message("instruction does not support addressing mode",
                              <<FORMAT_NAMES[mode], n>>)
           ELSE /\ IsOk(ret)
                /\ size(ret[2]) = n + 1
                /\ IsOk(ret[3])
                /\ Len(ret[3][2]) = n + 1
                /\ ret[3][2][1] = WdcCodes[m][<<mode, n>>]
                /\ \A k \in 1..n : ret[3][2][k + 1] = (v \div (256 ^ (k - 1))) % 256

\* a two-byte operand in an indexed mode
C10_Witness ==
    /\ Returned("WdcUnary")
    /\ call[2] = "lda" /\ call[3] = "IDX_X" /\ call[4] = Val(256)
    /\ IsOk(ret)
    /\ ret[3] = Ok(<<189, 0, 1>>)

\* C11: for every SAP unary instruction whose operand is accepted, the single
\* emitted byte is (opcode << 4) | operand, with the opcode in its high nibble
\* and the operand in its low nibble; every operand that does not fit the
\* 4-bit field is rejected with 'is too large'.
C11_SapUnaryEncoding ==
    (Returned("SapUnary") /\ IsOk(eval(call[3], OperandScope))) =>
        LET code == SapCodes[call[2]]
            v == eval(call[3], OperandScope)[2]
        IN /\ IsOk(ret) =>
                /\ ret[2] = <<or_(code * 16, v)>>
                /\ ret[2][1] \div 16 = code
                /\ ret[2][1] % 16 = v
           /\ (v < 0 \/ v > 15) =>
                ret = Message("evaluated result is too large", v)

\* C12: the constants are all evaluated, in source order, before any label or
\* instruction is processed, each against only the constants defined earlier
\* in the source; a statement may use a constant defined later in the file,
\* while a constant expression that names a label or a later constant fails
\* with the 'not bound' diagnostic.
ConstIdx == {i \in 1..Len(stmts) : stmts[i][1] = "Const"}

EarlierConsts(i) == {stmts[j][2] : j \in {k \in ConstIdx : k < i}}

RECURSIVE ExprNames(_)
ExprNames(e) ==
    CASE e[1] = "Name" -> {e[2]}
      [] e[1] = "UnExpr" -> ExprNames(e[3])
      [] e[1] = "BinExpr" -> ExprNames(e[2]) \cup ExprNames(e[4])
      [] OTHER -> {}

UnboundAt(i) == ~(ExprNames(stmts[i][3]) \subseteq EarlierConsts(i))

C12_ConstsFirst ==
    /\ phase = "init" => (labels = EmptyMap /\ out = <<>> /\ loc = 0)
    /\ phase \in {"scan", "iter", "done"} =>
          /\ \A i \in ConstIdx : ~UnboundAt(i)
          /\ DOMAIN consts = NamesOf("Const")
          /\ \A i \in ConstIdx :
                LET v == eval(stmts[i][3], [n \in EarlierConsts(i) |-> consts[n]])
                IN IsOk(v) /\ consts[stmts[i][2]] = v[2]
          /\ \A n \in DOMAIN consts : n \in DOMAIN scope /\ scope[n] = consts[n]
    /\ (phase = "init" /\ ~Running /\ ~ReservedConst /\ ~TwiceDeclared("Const")) =>
          \E i \in ConstIdx :
              /\ UnboundAt(i)
              /\ \A j \in ConstIdx : j < i => ~UnboundAt(j)
              /\ err[1] = "Message" /\ err[2] = NotBound
              /\ err[3] \in ExprNames(stmts[i][3]) \ EarlierConsts(i)
              /\ DOMAIN consts = EarlierConsts(i)

\* an instruction uses a constant that is defined after it, from an earlier one
C12_Witness ==
    /\ phase = "done" /\ Running
    /\ stmts = << <<"Op", "lda", <<Name("foo")>>>>,
                  <<"Const", "foo", Val(5)>>,
                  <<"Const", "bar", Name("foo")>> >>
    /\ consts = ("foo" :> 5) @@ ("bar" :> 5)
    /\ out = <<21>>

\* a constant that names a later constant is not bound
C12_WitnessLater ==
    /\ phase = "init" /\ ~Running
    /\ stmts = << <<"Const", "bar", Name("foo")>>, <<"Const", "foo", Val(5)>> >>
    /\ err = <<"Message", NotBound, "foo">>

\* The lines of a text, read off the text itself: the offsets at which a line
\* starts, its 1-based number and its characters up to and including "\n".
LineStarts(text) ==
    IF Len(text) = 0 THEN {}
    ELSE {0} \cup {i \in 1..(Len(text) - 1) : text[i] = "\n"}

LineNumAt(text, s) == 1 + Cardinality({i \in 1..s : text[i] = "\n"})

LineEnd(text, s) ==
    IF \E i \in (s + 1)..Len(text) : text[i] = "\n"
    THEN CHOOSE i \in (s + 1)..Len(text) :
            text[i] = "\n" /\ \A j \in (s + 1)..(i - 1) : text[j] # "\n"
    ELSE Len(text)

LineAt(text, s) == SubSeq(text, s + 1, LineEnd(text, s))

\* the offset within the line of its first ';', or the line's length
CommentStart(line) ==
    IF \E i \in 1..Len(line) : line[i] = COMMENT_CHR
    THEN (CHOOSE i \in 1..Len(line) :
            line[i] = COMMENT_CHR /\ \A j \in 1..(i - 1) : line[j] # COMMENT_CHR) - 1
    ELSE Len(line)

\* a line that is blank or holds only a comment
BlankOrComment(line) == \A i \in 1..CommentStart(line) : IsSpaceChr(line[i])

TokLineStart(t) == IF t[1] = "Text" THEN t[3] ELSE t[2]
TokLineNum(t) == IF t[1] = "Text" THEN t[4] ELSE t[3]
TokCol(t) == IF t[1] = "Text" THEN t[5] ELSE t[4]

LexDone == call[1] = "lex" /\ ret # NoCall /\ ret[7] = "done"
LexRaised == call[1] = "lex" /\ ret # NoCall /\ ret[7] = "raise"
LexToks == ret[5]

\* the Text and Newline tokens of line k
TokensOfLine(k) ==
    {i \in 1..Len(LexToks) : LexToks[i][1] # "Eof" /\ TokLineNum(LexToks[i]) = k}

IsOpener(t) == t[1] = "Text" /\ t[2] \in {<<"[">>, <<"(">>}
IsCloser(t) == t[1] = "Text" /\ t[2] \in {<<"]">>, <<")">>}

\* the number of delimiters open at the end of line k
OpenAfterLine(k) ==
    Cardinality({i \in 1..Len(LexToks) : IsOpener(LexToks[i]) /\ TokLineNum(LexToks[i]) <= k})
    - Cardinality({i \in 1..Len(LexToks) : IsCloser(LexToks[i]) /\ TokLineNum(LexToks[i]) <= k})

\* C13: when lexing succeeds, the token sequence holds exactly one Eof and it
\* is the last token; a line that is blank or holds only a comment emits no
\* token; every other line is followed by exactly one Newline if no delimiter
\* is open at the end of that line and by no Newline otherwise.
C13_NewlineParity ==
    /\ (call[1] = "lex" /\ ret # NoCall /\ ret[7] # "done") =>
          \A i \in 1..Len(LexToks) : LexToks[i][1] # "Eof"
    /\ LexDone =>
          /\ Len(LexToks) >= 1
          /\ \A i \in 1..Len(LexToks) : LexToks[i][1] = "Eof" <=> i = Len(LexToks)
          /\ \A i, j \in 1..(Len(LexToks) - 1) :
                i < j => TokLineNum(LexToks[i]) <= TokLineNum(LexToks[j])
          /\ \A s \in LineStarts(call[2]) :
                LET k == LineNumAt(call[2], s)
                    mine == TokensOfLine(k)
                    nls == {i \in mine : LexToks[i][1] = "Newline"}
                IN IF BlankOrComment(LineAt(call[2], s))
                   THEN mine = {}
                   ELSE /\ \E i \in mine : LexToks[i][1] = "Text"
                        /\ Cardinality(nls) = IF OpenAfterLine(k) = 0 THEN 1 ELSE 0
                        /\ \A i \in nls : \A j \in mine : j <= i

\* a line that leaves a delimiter open, a blank line and a line that closes it
C13_Witness ==
    /\ LexDone
    /\ call[2] = <<"(", "\n", "\n", ")">>
    /\ LexToks = << TextTok(<<"(">>, 0, 1, 0), TextTok(<<")">>, 3, 3, 0),
                    NewlineTok(3, 3, 1), EofTok(3, 3, 1) >>

\* C14: for every Text(text, line_start, line_num, col) token the lexer
\* produces, input[line_start + col : line_start + col + len(text)] = text,
\* and line_num is the 1-based number of the line that starts at offset
\* line_start.
C14_TextPositions ==
    (call[1] = "lex" /\ ret # NoCall) =>
        \A i \in 1..Len(LexToks) :
            LexToks[i][1] = "Text" =>
                LET text == LexToks[i][2]
                    line_start == LexToks[i][3]
                    line_num == LexToks[i][4]
                    col == LexToks[i][5]
                IN /\ Len(text) >= 1
                   /\ line_start + col + Len(text) <= Len(call[2])
                   /\ SubSeq(call[2], line_start + col + 1, line_start + col + Len(text)) = text
                   /\ line_start \in LineStarts(call[2])
                   /\ line_num = LineNumAt(call[2], line_start)

\* a token after leading whitespace on the line after a blank line
C14_Witness ==
    /\ LexDone
    /\ call[2] = <<"\n", " ", "a", "*">>
    /\ LexToks[1] = TextTok(<<"a">>, 1, 2, 1)
    /\ LexToks[2] = TextTok(<<"*">>, 1, 2, 2)

\* C15: on every line the first ';' starts a comment that runs to the end of
\* the line: no Text token contains a ';', and every Text token (so every
\* delimiter pushed or popped) lies wholly before the first ';' of its line,
\* whether or not whitespace precedes the ';'.
C15_CommentsDiscarded ==
    (call[1] = "lex" /\ ret # NoCall) =>
        \A i \in 1..Len(LexToks) :
            LexToks[i][1] = "Text" =>
                /\ \A k \in 1..Len(LexToks[i][2]) : LexToks[i][2][k] # COMMENT_CHR
                /\ LexToks[i][5] + Len(LexToks[i][2])
                      <= CommentStart(LineAt(call[2], LexToks[i][3]))

\* the delimiters left open by the first n tokens
RECURSIVE OpenStack(_, _)
OpenStack(toks, n) ==
    IF n = 0 THEN <<>>
    ELSE LET st == OpenStack(toks, n - 1)
         IN IF IsOpener(toks[n]) THEN Append(st, toks[n])
            ELSE IF IsCloser(toks[n]) /\ Len(st) > 0 THEN SubSeq(st, 1, Len(st) - 1)
            ELSE st

PairsWith(opener, closer) == closer[2] = <<DELIM_PAIRS[opener[2][1]]>>

\* C16: the delimiter stack holds exactly the currently open '[' and '('
\* tokens; a closing delimiter met with an empty stack fails (unmatched
\* closing delimiter), one that does not pair with the most recently opened
\* delimiter fails (the diagnostic the code spells 'delimiter mistmatch'), the
\* end of the input with a nonempty stack fails with a diagnostic on the
\* opener, and Eof is only emitted with an empty stack.
C16_DelimiterStack ==
    (call[1] = "lex" /\ ret # NoCall) =>
        LET delims == ret[4]
            top == delims[Len(delims)]
        IN /\ delims = OpenStack(LexToks, Len(LexToks))
           /\ \A i \in 1..Len(LexToks) :
                 IsCloser(LexToks[i]) =>
                     LET st == OpenStack(LexToks, i - 1)
                     IN Len(st) > 0 /\ PairsWith(st[Len(st)], LexToks[i])
           /\ (\E i \in 1..Len(LexToks) : LexToks[i][1] = "Eof") => delims = <<>>
           /\ ret[7] = "done" => delims = <<>>
           /\ (ret[7] = "run" /\ readline(call[2], ret[2]) = <<>> /\ delims # <<>>) =>
                 ~ENABLED (LexSkipLine \/ LexLine)
           /\ ret[7] = "raise" =>
                 LET tok == ret[8][3][1]
                 IN /\ ret[8][1] = "Message" /\ Len(ret[8][3]) = 1
                    /\ SubSeq(call[2], tok[3] + tok[5] + 1, tok[3] + tok[5] + 1) = tok[2]
                    /\ CASE ret[8][2] = "unmatched closing delimiter" ->
                                IsCloser(tok) /\ delims = <<>>
                         [] ret[8][2] = "delimiter mistmatch" ->
                                IsCloser(tok) /\ delims # <<>> /\ ~PairsWith(top, tok)
                         [] ret[8][2] = "unmatched opening delimiter" ->
                                /\ delims # <<>> /\ tok = top
                                /\ readline(call[2], ret[2]) = <<>>
                         [] OTHER -> FALSE

\* the input ends with two delimiters open: the diagnostic is on the last one
C16_Witness ==
    /\ LexRaised
    /\ call[2] = <<"(", "\n", "[">>
    /\ ret[8] = <<"Message", "unmatched opening delimiter", <<TextTok(<<"[">>, 2, 2, 0)>>>>

\* a closing delimiter that does not pair with the open one
C16_WitnessMismatch ==
    /\ LexRaised
    /\ call[2] = <<"(", "]">>
    /\ ret[8] = <<"Message", "delimiter mistmatch", <<TextTok(<<"]">>, 0, 1, 1)>>>>

\* the value of the digits of s at positions from..i, underscores ignored
RECURSIVE PlaceValue(_, _, _, _)
PlaceValue(s, i, from, base) ==
    IF i < from THEN 0
    ELSE IF s[i] = "_" THEN PlaceValue(s, i - 1, from, base)
    ELSE PlaceValue(s, i - 1, from, base) * base + DigitValue(s[i])

\* the base of a text that has one of the four integer-literal shapes
\* 0b[01_]+, 0o[0-7_]+, [0-9][0-9_]* and 0x[0-9a-fA-F_]+, or 0 if it has none
LiteralBase(s) ==
    IF HasPrefix(s, "b") /\ AllIn(s, 3, BinDigits \cup {"_"}) THEN 2
    ELSE IF HasPrefix(s, "o") /\ AllIn(s, 3, OctDigits \cup {"_"}) THEN 8
    ELSE IF HasPrefix(s, "x") /\ AllIn(s, 3, HexLetters \cup DecDigits \cup {"_"}) THEN 16
    ELSE IF Len(s) >= 1 /\ s[1] \in DecDigits /\ AllIn(s, 2, DecDigits \cup {"_"}) THEN 10
    ELSE 0

\* C18: a token that has one of the four integer-literal shapes (and at least
\* one digit) parses as an atom to the Val of its value under the usual base
\* rules with the '_' separators ignored, wherever the '_' are placed.
C18_IntegerLiterals ==
    Returned("parse_atom") =>
        LET s == call[2]
            base == LiteralBase(s)
            from == IF base = 10 THEN 1 ELSE 3
        IN (base # 0 /\ \E i \in from..Len(s) : s[i] # "_")
              => ret = Parsed(Val(PlaceValue(s, Len(s), from, base)), 2)

\* C19: every token that matches the identifier pattern
\* [A-Za-z_][A-Za-z0-9_]*, '_' and names that start with '_' included, is
\* parsed by the atom parser as Name(token); only a token that does not match
\* the identifier pattern is treated as an integer literal.
C19_IdentifiersAreNames ==
    Returned("parse_atom") =>
        LET s == call[2]
            identifier == /\ s[1] \in Letters \cup {"_"}
                          /\ \A i \in 2..Len(s) : s[i] \in Letters \cup DecDigits \cup {"_"}
        IN /\ identifier => ret = Parsed(Name(s), 2)
           /\ (IsOk(ret) /\ ret[2][1] = "Val") => ~identifier
           /\ ret[1] = "raise" => ~identifier

\* C17: for every well-formed expression, parse_expr returns the tree the
\* grammar dictates: | ^ & << >> + - * / % associate to the left, **
\* associates to the right, unary - and ~ nest to the right, and the
\* precedence from lowest to highest is |, ^, &, {<<,>>}, {+,-}, {*,/,%},
\* unary, **. So the text of a tree, written with parentheses only where
\* these rules need them, parses back to that tree, up to the end of the line.
C17_ExpressionGrammar ==
    Returned("parse_expr") =>
        /\ IsOk(ret)
        /\ ret[2] = call[3]
        /\ LineTokens(call[2])[ret[3]][1] = "Newline"

\* '- 0 ** 1' is -(0 ** 1)
C17_Witness ==
    /\ Returned("parse_expr")
    /\ call[2] = <<"-", " ", "0", " ", "*", "*", " ", "1">>
    /\ ret[2] = <<"UnExpr", "-", BinExpr(Val(0), "**", Val(1))>>

\* '0 - 1 - 0' is (0 - 1) - 0 and '0 ** 1 ** 0' is 0 ** (1 ** 0)
C17_WitnessAssoc ==
    /\ Returned("parse_expr")
    /\ \/ /\ call[2] = <<"0", " ", "-", " ", "1", " ", "-", " ", "0">>
          /\ ret[2] = BinExpr(BinExpr(Val(0), "-", Val(1)), "-", Val(0))
       \/ /\ call[2] = <<"0", " ", "*", "*", " ", "1", " ", "*", "*", " ", "0">>
          /\ ret[2] = BinExpr(Val(0), "**", BinExpr(Val(1), "**", Val(0)))

----------------------------------------------------------------------------
(* wes/exceptions.py: Message.render, as <<line number, column, printed     *)
(* line, marker string>>                                                    *)

\* Message._get_line
_get_line(file_txt, line_start) == readline(file_txt, line_start)

Min(a, b) == IF a <= b THEN a ELSE b

Spaces(n) == [i \in 1..n |-> " "]
Carets(n) == [i \in 1..n |-> "^"]

\* Message.render for the tokens toks
render(file_txt, toks) ==
    LET fst == toks[1]
        lst == toks[Len(toks)]
        line == strip(_get_line(file_txt, TokLineStart(fst)))
        marker_start == Min(Len(line), TokCol(fst))
        marker_end == IF IsText(lst) THEN TokCol(lst) + Len(lst[2])
                      ELSE Min(Len(line), TokCol(lst))
        marker_len == IF Len(toks) = 1
                      THEN (IF IsText(fst) THEN Len(fst[2]) ELSE 1)
                      ELSE Max(1, marker_end - marker_start)
    IN <<TokLineNum(fst), TokCol(fst) + 1, line,
         Spaces(marker_start) \o Carets(marker_len)>>

\* the tokens the lexer yields for a text without delimiters and comments
TokensOfText(text) ==
    UNION {LET line == LineAt(text, s)
               r == lex_parts(tokenize(line), 1, 0, s, LineNumAt(text, s), <<>>, <<>>)
           IN IF is_empty_line(line) THEN {}
              ELSE {r[3][i] : i \in 1..Len(r[3])}
                   \cup {NewlineTok(s, LineNumAt(text, s),
                                    IF line[Len(line)] = "\n" THEN Len(line) - 1
                                    ELSE Len(line))} :
           s \in LineStarts(text)}

\* the diagnostics over a text: one token, or the first and the last token of
\* a span on one line
Diagnostics(text) ==
    {<<t>> : t \in TokensOfText(text)}
    \cup {d \in TokensOfText(text) \X TokensOfText(text) :
            TokLineNum(d[1]) = TokLineNum(d[2]) /\ TokCol(d[1]) < TokCol(d[2])}

RenderAlphabet == {"a", " ", "\n", "*"}

RenderCalls ==
    UNION {{<<"render", text, toks>> : toks \in Diagnostics(text)} :
              text \in UNION {[1..n -> RenderAlphabet] : n \in 1..MaxText}}

InitRender == Idle /\ call \in RenderCalls /\ ret = NoCall

CallRender ==
    /\ Pending("render")
    /\ ret' = render(call[2], call[3])
    /\ UNCHANGED <<compilerVars, call>>

NextRender == CallRender

SpecRender == InitRender /\ [][NextRender]_vars

\* C20: in a rendered diagnostic over Text tokens the caret run has length at
\* least 1, starts at the first token's column and ends at the last token's
\* end column, and the characters of the printed line directly above the
\* carets are exactly the source text the tokens span, also on a line with
\* leading whitespace.
C20_CaretsUnderTokens ==
    (Returned("render") /\ IsText(call[3][1]) /\ IsText(call[3][Len(call[3])])) =>
        LET fst == call[3][1]
            lst == call[3][Len(call[3])]
            line == ret[3]
            marker == ret[4]
            carets == {i \in 1..Len(marker) : marker[i] = "^"}
            from == fst[5] + 1
            to == lst[5] + Len(lst[2])
        IN /\ carets # {}
           /\ carets = from..to
           /\ \A i \in 1..Len(marker) : i \notin carets => marker[i] = " "
           /\ to <= Len(line)
           /\ SubSeq(line, from, to) = SubSeq(call[2], fst[3] + from, lst[3] + to)

----------------------------------------------------------------------------
(* The two passes over one program                                          *)

\* the loop of scan as a function: the value of loc before each statement
\* and after the last one, cut short where scan raises
RECURSIVE scan_locs(_, _, _, _, _, _, _, _)
scan_locs(t, ss, i, l, inst, lbls, cnsts, sc) ==
    IF i > Len(ss) THEN <<l>>
    ELSE LET stmt == ss[i]
         IN CASE stmt[1] = "Const" ->
                   <<l>> \o scan_locs(t, ss, i + 1, l, inst, lbls, cnsts, sc)
              [] stmt[1] = "Label" ->
                   (IF IsOk(label_check(t, stmt[2], lbls, cnsts))
                    THEN <<l>> \o scan_locs(t, ss, i + 1, l, inst,
                                            (stmt[2] :> l) @@ lbls, cnsts,
                                            (stmt[2] :> l) @@ sc)
                    ELSE <<l>>)
              [] stmt[1] = "Offset" ->
                   (LET r == scan_offset(t, l, stmt, inst)
                    IN IF IsOk(r)
                       THEN <<l>> \o scan_locs(t, ss, i + 1, r[2], inst, lbls,
                                               cnsts, sc)
                       ELSE <<l>>)
              [] OTHER ->
                   (IF too_large(t, l) THEN <<l>>
                    ELSE LET r == make_instruction(t, stmt, cnsts, sc)
                         IN IF IsOk(r)
                            THEN <<l>> \o scan_locs(t, ss, i + 1, l + size(r[2]),
                                                    r[2], lbls, cnsts, sc)
                            ELSE <<l>>)

\* the cursors of the first pass over the program being compiled
Pass1Locs == scan_locs(target, stmts, 1, 0, None, EmptyMap, consts, consts)

\* C21: while the second pass runs, its loc before each statement (and after
\* the last) is the loc the first pass had there; at a label it is the
\* address recorded for the label; at an offset both passes resolve the
\* same target.
C21_PassesAgree ==
    (Running /\ phase \in {"iter", "done"}) =>
        /\ Len(Pass1Locs) = Len(stmts) + 1
        /\ loc = Pass1Locs[idx]
        /\ (idx <= Len(stmts) /\ Stmt[1] = "Label") => labels[Stmt[2]] = loc
        /\ (idx <= Len(stmts) /\ Stmt[1] = "Offset") =>
               resolve_offset(target, loc, Stmt) = Ok(Pass1Locs[idx + 1])

\* a finished compile with code, an offset that moves the cursor, then a label
C21_Witness ==
    /\ Running /\ phase = "done" /\ Len(stmts) = 3
    /\ stmts[2][1] = "Offset" /\ stmts[3][1] = "Label"
    /\ labels[stmts[3][2]] = loc /\ loc > 1 /\ Len(out) > 1

----------------------------------------------------------------------------
(* unify *)

\* the variables that occur in a term
RECURSIVE VarsOf(_)
VarsOf(term) ==
    IF IsVar(term) THEN {term}
    ELSE IF IsLeaf(term) THEN {}
    ELSE UNION {VarsOf(term[i]) : i \in 2..Len(term)}

\* the term with every key of subs replaced by its value
RECURSIVE Substituted(_, _)
Substituted(subs, term) ==
    IF IsVar(term) THEN (IF term \in DOMAIN subs THEN subs[term] ELSE term)
    ELSE IF IsLeaf(term) THEN term
    ELSE <<term[1]>> \o [i \in 1..(Len(term) - 1) |-> Substituted(subs, term[i + 1])]

UnifyReturned == call[1] = "unify" /\ ret[1] = "ok"
UnifyRaised == call[1] = "unify" /\ ret[1] = "raise"

C23_UnifySymmetric ==
    (UnifyReturned \/ UnifyRaised) =>
        LET swapped == unify(call[3], call[2])
        IN IF ret[1] = "ok" THEN swapped = ret
           ELSE swapped[1] = "raise" /\ swapped[2] = ret[2] /\ swapped[3] = ret[3]

\* the equation at place i of the queue binds a variable and no rule applies
\* to it: the variable is not the term, does not occur in it or in any other
\* equation, and its predicate accepts the term
Deferred(equations, i) ==
    LET x == equations[i][1]
        y == equations[i][2]
    IN /\ IsVar(x) /\ x # y /\ x \notin VarsOf(y)
       /\ predicate_holds(x[3], y)
       /\ \A j \in 1..Len(equations) :
              j # i => x \notin VarsOf(equations[j][1]) \cup VarsOf(equations[j][2])

----------------------------------------------------------------------------
(* cache_left_rec *)

LeftRecLoop == call[1] = "cache_left_rec" /\ ret[1] = "loop"

\* C25: the loop of cache_left_rec terminates, since every accepted run of
\* the method ends strictly further than the one before and no further than
\* the last token, so that there are at most as many runs as tokens; the
\* call returns the last accepted parse with the cursor at its end, and
\* that parse cannot be continued by an operator of the production; it
\* returns no match with the cursor where it was at entry only when the
\* first run made no progress.
C25_LeftRecursionGrows ==
    /\ [](LeftRecLoop => (ret[3] <= Len(call[3]) /\ ret[4] <= ret[3] - call[4]))
    /\ [][(LeftRecLoop /\ ret'[1] = "loop") => ret'[3] > ret[3]]_vars
    /\ [][(LeftRecLoop /\ ret'[1] = "ok") =>
              /\ ret[2] # None
              /\ ret' = Parsed(ret[2], ret[3])
              /\ ~IsOneOf(call[3][ret[3]], LevelOps[call[2]])]_vars
    /\ [][(LeftRecLoop /\ ret'[1] = "None") =>
              /\ ret[2] = None /\ ret[4] = 0
              /\ ret' = Reset(call[4])
              /\ rhs(call[2], call[3], call[4])[1] = "None"]_vars

\* the result of two accepted growths of a seed: (x op y) op z
C25_Witness ==
    /\ call[1] = "cache_left_rec" /\ ret[1] = "ok"
    /\ ret[2][1] = "BinExpr" /\ ret[2][2][1] = "BinExpr"
    /\ ret[3] = 6

----------------------------------------------------------------------------
(* optional, Reset and Stop *)

\* the method parse_stmt is about to try, as it ends before optional
Tried == method(STMT_ORDER[ret[4]], call[2], ret[3])

\* C26: when a method wrapped by optional yields no match the cursor is
\* where it was when the method was entered; no Reset leaves parse_file;
\* a Stop raised in a method is raised by parse_file.
C26_SoftAndHardFailures ==
    /\ [][(FileLoop /\ ret'[1] = "file" /\ ret'[4] = ret[4] + 1) =>
              ret'[3] = ret[3]]_vars
    /\ [](call[1] = "parse_file" /\ ret[1] = "raise" => ret[2] # "Reset")
    /\ [][(FileLoop /\ ret[4] <= Len(STMT_ORDER) /\ IsRaised(Tried, "Stop")) =>
              ret' = Tried]_vars

\* every method before parse_binary found no statement and left the cursor
\* at the start of the line; parse_binary is tried there and raises Stop
C26_Witness ==
    /\ FileLoop /\ ret[2] = <<>>
    /\ ret[4] = Len(STMT_ORDER) /\ ret[3] = 1
    /\ ret[5] # None
    /\ IsRaised(Tried, "Stop")

----------------------------------------------------------------------------
(* TokenStream *)

IsPrefix(s, t) == Len(s) <= Len(t) /\ SubSeq(t, 1, Len(s)) = s

\* C27: whatever marks and resets came before, a get with the cursor at a
\* position returns the token that was returned there the first time, which
\* is the lexer's token of that position; the history only grows at its
\* end, the cursor never exceeds its length, and get raises EndOfTokens
\* exactly when the cursor is past the last token of the lexer.
C27_ReplayAfterReset ==
    /\ [](Streaming =>
            /\ ret[4] <= Len(ret[3])
            /\ IsPrefix(ret[3], call[2])
            /\ ret[6][1] = "get" =>
                   (ret[6][2] = ret[3][ret[6][3] + 1] /\ ret[4] = ret[6][3] + 1)
            /\ ret[6][1] = "raise" => ret[6][3] = Len(call[2]))
    /\ [][Streaming => IsPrefix(ret[3], ret'[3])]_vars
    /\ [][(Streaming /\ ret[4] = Len(call[2]) /\ ret'[6][1] \in {"get", "raise"}) =>
              ret'[6] = <<"raise", "EndOfTokens", ret[4]>>]_vars

\* after a reset to a marked position, a get has returned again a token
\* that is not the last of the history
C27_Witness ==
    /\ Streaming /\ ret[6][1] = "get"
    /\ ret[6][3] > 0 /\ ret[6][3] \in ret[5]
    /\ ret[6][3] + 1 < Len(ret[3])
    /\ ret[2] = Len(call[2])

\* C28: every value the compiler has yielded is an integer from 0 to 255.
C28_BytesInRange == \A i \in 1..Len(out) : out[i] \in 0..255

\* C29: an iteration over a compiler that was iterated before raises
\* nothing, yields the bytes the first iteration yielded and leaves labels,
\* consts and scope as the first left them.
C29_Repeatable ==
    ret[1] = "first" =>
        /\ err = NoErr
        /\ phase = "done" =>
               (out = ret[2] /\ labels = ret[3] /\ consts = ret[4] /\ scope = ret[5])

\* C30: for a line made of an identifier and the text of one well-formed
\* expression, parse_stmt yields the unary Op of the identifier and that
\* expression.
C30_IdentifierThenArgument ==
    Returned("parse_stmt") =>
        (ret[1] = "ok" /\ ret[2] = <<"Op", <<"a">>, <<call[3]>>>>)

====
